---- MODULE Spec2Model ----
(***************************************************************************)
(* A model of the turn orchestration engine of helix: the permission       *)
(* policy (helix/settings.py), the turn graph with its approval interrupts *)
(* (helix/agent/graph.py) and the terminal loop that answers the           *)
(* interrupts (helix/gui.py).                                              *)
(*                                                                         *)
(* Python strings are sequences of one-character strings, so that strip,   *)
(* split, startswith, endswith, the rule regex and the f-string that       *)
(* builds a rule are computed as the code computes them.                   *)
(***************************************************************************)
EXTENDS Integers, Sequences, FiniteSets, TLC

\* ------------------------------------------------------------------ bounds

\* Longest shell command / longest wildcard prefix drawn for the matcher.
MaxCmdLen == 3
MaxPrefixLen == 2

\* Human prompts submitted, tool calls the model emits in all, and tool
\* calls on one Assistant message.
MaxTurns == 2
MaxCalls == 2
MaxBatch == 2

\* Rules per list of a permission set drawn for check_permission.
MaxRules == 2

\* Rules per list of a permission set drawn for add_allow_rule, and calls
\* of add_allow_rule that follow.
MaxInitRules == 1
MaxAdds == 2

\* Messages of a conversation drawn for the trimming of call_llm.
MaxHistory == 5

\* Length of the text of a file insert_text is applied to.
MaxFileLen == 3

\* ----------------------------------------------------------------- strings

\* The characters commands and patterns are drawn from: two letters and two
\* whitespace characters.
SP == " "
TAB == "\t"
Alphabet == {"u", "v", SP, TAB}

\* Python's None, and an Optional value as a sequence of length 0 or 1.
None == <<>>
Some(x) == <<x>>

NL == "\n"

\* str.isspace for one character.
IsSpace(ch) == ch \in {SP, TAB, NL}

\* The character class [a-z_] of the rule regex.
Lower ==
  {"a", "b", "c", "d", "e", "f", "g", "h", "i", "j", "k", "l", "m", "n", "o",
   "p", "q", "r", "s", "t", "u", "v", "w", "x", "y", "z", "_"}

\* All strings over S of length at most n.
StringsUpTo(S, n) == UNION {[1..k -> S] : k \in 0..n}

\* str.lstrip(), str.rstrip(), str.strip().
RECURSIVE LStrip(_)
LStrip(s) ==
  IF s # <<>> /\ IsSpace(Head(s)) THEN LStrip(Tail(s)) ELSE s

RECURSIVE RStrip(_)
RStrip(s) ==
  IF s # <<>> /\ IsSpace(s[Len(s)]) THEN RStrip(SubSeq(s, 1, Len(s) - 1)) ELSE s

Strip(s) == RStrip(LStrip(s))

\* str.startswith, str.endswith.
StartsWith(s, pre) ==
  Len(pre) <= Len(s) /\ SubSeq(s, 1, Len(pre)) = pre

EndsWith(s, suf) ==
  Len(suf) <= Len(s) /\ SubSeq(s, Len(s) - Len(suf) + 1, Len(s)) = suf

\* The leading run of non-whitespace characters of s.
RECURSIVE Word(_)
Word(s) ==
  IF s = <<>> \/ IsSpace(Head(s)) THEN <<>> ELSE <<Head(s)>> \o Word(Tail(s))

\* command.split()[0] if command.split() else command
FirstWord(command) ==
  IF LStrip(command) = <<>> THEN command ELSE Word(LStrip(command))

WILDCARD == <<":", "*">>

\* Python string literals of the source as character sequences.
RUN_SHELL_COMMAND ==
  <<"r", "u", "n", "_", "s", "h", "e", "l", "l", "_",
    "c", "o", "m", "m", "a", "n", "d">>
READ_FILE == <<"r", "e", "a", "d", "_", "f", "i", "l", "e">>
WRITE_TODOS == <<"w", "r", "i", "t", "e", "_", "t", "o", "d", "o", "s">>
WRITE_FILE == <<"w", "r", "i", "t", "e", "_", "f", "i", "l", "e">>
INSERT_TEXT == <<"i", "n", "s", "e", "r", "t", "_", "t", "e", "x", "t">>
READ_TODOS == <<"r", "e", "a", "d", "_", "t", "o", "d", "o", "s">>

\* dict.get(key, default) on a dict modelled as a function.
Get(d, key, default) == IF key \in DOMAIN d THEN d[key] ELSE default

\* ------------------------------------------------------ permission policy

\* Length of the longest prefix of s matched by [a-z_]*.
RECURSIVE LowerPrefixLen(_)
LowerPrefixLen(s) ==
  IF s # <<>> /\ Head(s) \in Lower THEN 1 + LowerPrefixLen(Tail(s)) ELSE 0

\* re.match(r"^([a-z_]+)(?:\((.+)\))?$", rule): <<tool_name, pattern>>,
\* pattern None for a simple rule and for a rule the regex does not match.
\* (No character of the model is a newline, so '.' matches each of them.)
_parse_rule(rule) ==
  LET k == LowerPrefixLen(rule)
      n == Len(rule)
  IN  IF k >= 1 /\ k = n
        THEN <<rule, None>>
      ELSE IF k >= 1 /\ n >= k + 3 /\ rule[k + 1] = "(" /\ rule[n] = ")"
        THEN <<SubSeq(rule, 1, k), Some(SubSeq(rule, k + 2, n - 1))>>
      ELSE <<rule, None>>

\* _match_command_pattern with startswith(prefix) for startswith(prefix + " ").
_match_command_pattern_no_space(command, pattern) ==
  LET c == Strip(command)
      p == Strip(pattern)
  IN  IF EndsWith(p, WILDCARD)
        THEN StartsWith(c, SubSeq(p, 1, Len(p) - 2))
        ELSE c = p

\* A matcher whose exact patterns match every command they begin.
_match_command_pattern_starts(command, pattern) ==
  LET c == Strip(command)
      p == Strip(pattern)
  IN  IF EndsWith(p, WILDCARD)
        THEN LET prefix == SubSeq(p, 1, Len(p) - 2)
             IN  c = prefix \/ StartsWith(c, prefix \o <<SP>>)
        ELSE StartsWith(c, p)

_match_command_pattern(command, pattern) ==
  LET c == Strip(command)
      p == Strip(pattern)
  IN  IF EndsWith(p, WILDCARD)
        THEN LET prefix == SubSeq(p, 1, Len(p) - 2)
             IN  c = prefix \/ StartsWith(c, prefix \o <<SP>>)
        ELSE c = p

\* match_rule applying the pattern to the command argument of any tool.
match_rule_any_tool(rule, tool_name, tool_args) ==
  LET parsed == _parse_rule(rule)
  IN  IF parsed[1] # tool_name THEN FALSE
      ELSE IF parsed[2] = None THEN TRUE
      ELSE _match_command_pattern(Get(tool_args, "command", <<>>),
                                  parsed[2][1])

\* match_rule testing for a simple rule before it compares the tool names.
match_rule_simple_first(rule, tool_name, tool_args) ==
  LET parsed == _parse_rule(rule)
  IN  IF parsed[2] = None THEN TRUE
      ELSE IF parsed[1] # tool_name THEN FALSE
      ELSE IF tool_name = RUN_SHELL_COMMAND
        THEN _match_command_pattern(Get(tool_args, "command", <<>>),
                                    parsed[2][1])
      ELSE FALSE

match_rule(rule, tool_name, tool_args) ==
  LET parsed == _parse_rule(rule)
      rule_tool == parsed[1]
      rule_pattern == parsed[2]
  IN  IF rule_tool # tool_name THEN FALSE
      ELSE IF rule_pattern = None THEN TRUE
      ELSE IF tool_name = RUN_SHELL_COMMAND
        THEN _match_command_pattern(Get(tool_args, "command", <<>>),
                                    rule_pattern[1])
      ELSE FALSE

\* True / False / None of check_permission.
PermTrue == "True"
PermFalse == "False"
PermNone == "None"

\* The rule loop leaving after its first rule.
RuleLoopFirstOnly(rules, tool_name, tool_args) ==
  rules # <<>> /\ match_rule(Head(rules), tool_name, tool_args)

\* "for rule in rules: if match_rule(rule, ...): return ..." -- TRUE when the
\* loop returns from inside, scanning the list from its first rule.
RECURSIVE RuleLoop(_, _, _)
RuleLoop(rules, tool_name, tool_args) ==
  IF rules = <<>> THEN FALSE
  ELSE IF match_rule(Head(rules), tool_name, tool_args) THEN TRUE
  ELSE RuleLoop(Tail(rules), tool_name, tool_args)

\* check_permission with the two loops in the other order.
check_permission_allow_first(settings, tool_name, tool_args) ==
  IF RuleLoop(settings.permissions.allow, tool_name, tool_args)
    THEN PermTrue
  ELSE IF RuleLoop(settings.permissions.deny, tool_name, tool_args)
    THEN PermFalse
  ELSE PermNone

check_permission(settings, tool_name, tool_args) ==
  IF RuleLoop(settings.permissions.deny, tool_name, tool_args)
    THEN PermFalse
  ELSE IF RuleLoop(settings.permissions.allow, tool_name, tool_args)
    THEN PermTrue
  ELSE PermNone

\* The rule add_allow_rule creates for a call.
AllowRuleFor(tool_name, tool_args) ==
  IF tool_name = RUN_SHELL_COMMAND
    THEN LET command == Get(tool_args, "command", <<>>)
             first_word == FirstWord(command)
         IN  RUN_SHELL_COMMAND \o <<"(">> \o first_word \o WILDCARD \o <<")">>
    ELSE tool_name

\* ------------------------------------------------------ settings on disk

DEFAULT_MODEL == "qwen3-coder"
DEFAULT_CONTEXT_WINDOW_SIZE == 128000

\* Settings(permissions=Permissions(allow, deny), model, context_window_size).
Settings(allow, deny, model, context_window_size) ==
  [permissions |-> [allow |-> allow, deny |-> deny],
   model |-> model,
   context_window_size |-> context_window_size]

\* What json.load gives for a JSON text that is no object: an array, a
\* string, a number or null, none of which has a get method. An object is
\* the function from its keys to its values.
NotAnObject(kind) == [json |-> kind]
IsObject(value) == "json" \notin DOMAIN value

\* A settings file open() or json.load fails on, by the exception raised.
Unloadable(exc) == [error |-> exc]

\* The outcome of a call that ends in an exception.
Raises(exc) == [raised |-> exc]

\* A _parse_settings that takes the default for an empty model name and
\* for a window size of 0 ("data.get(key) or default").
_parse_settings_or_default(data) ==
  LET permissions_data == Get(data, "permissions", <<>>)
      model == Get(data, "model", DEFAULT_MODEL)
      context_window_size ==
        Get(data, "context_window_size", DEFAULT_CONTEXT_WINDOW_SIZE)
  IN  Settings(Get(permissions_data, "allow", <<>>),
               Get(permissions_data, "deny", <<>>),
               IF model = "" THEN DEFAULT_MODEL ELSE model,
               IF context_window_size = 0
                 THEN DEFAULT_CONTEXT_WINDOW_SIZE
                 ELSE context_window_size)

\* _parse_settings on the value json.load gave: data.get and
\* permissions_data.get raise AttributeError on a value that is no object.
_parse_settings(data) ==
  IF ~IsObject(data) THEN Raises("AttributeError")
  ELSE LET permissions_data == Get(data, "permissions", <<>>)
       IN  IF ~IsObject(permissions_data) THEN Raises("AttributeError")
           ELSE Settings(Get(permissions_data, "allow", <<>>),
                         Get(permissions_data, "deny", <<>>),
                         Get(data, "model", DEFAULT_MODEL),
                         Get(data, "context_window_size",
                             DEFAULT_CONTEXT_WINDOW_SIZE))

\* load_settings: file is None when .helix/settings.json does not exist,
\* else Some(the value json.load gives, or the exception of open() or
\* json.load); json.JSONDecodeError and OSError are caught, any other
\* exception leaves load_settings.
load_settings(file) ==
  IF file = None
    THEN Settings(<<>>, <<>>, DEFAULT_MODEL, DEFAULT_CONTEXT_WINDOW_SIZE)
  ELSE IF "error" \in DOMAIN file[1]
    THEN (IF file[1].error \in {"JSONDecodeError", "OSError"}
            THEN Settings(<<>>, <<>>, DEFAULT_MODEL,
                          DEFAULT_CONTEXT_WINDOW_SIZE)
            ELSE Raises(file[1].error))
  ELSE _parse_settings(file[1])

\* save_settings: the file content written for settings.
save_settings(settings) ==
  Some([permissions |-> [allow |-> settings.permissions.allow,
                         deny |-> settings.permissions.deny],
        model |-> settings.model,
        context_window_size |-> settings.context_window_size])

\* get_settings: the global after "if _settings is None: load".
get_settings(global, file) ==
  IF global = None THEN load_settings(file) ELSE global[1]

\* add_allow_rule without the "if rule not in" test.
add_allow_rule_always(global, file, tool_name, tool_args) ==
  LET settings == get_settings(global, file)
      rule == AllowRuleFor(tool_name, tool_args)
      added == [settings EXCEPT !.permissions.allow = Append(@, rule)]
  IN  [global |-> Some(added), file |-> save_settings(added),
       saved |-> TRUE, rule |-> rule]

\* add_allow_rule putting the new rule first in the list.
add_allow_rule_insert(global, file, tool_name, tool_args) ==
  LET settings == get_settings(global, file)
      rule == AllowRuleFor(tool_name, tool_args)
      present == \E i \in 1..Len(settings.permissions.allow) :
                    settings.permissions.allow[i] = rule
      added == [settings EXCEPT !.permissions.allow = <<rule>> \o @]
  IN  IF present
        THEN [global |-> Some(settings), file |-> file,
              saved |-> FALSE, rule |-> rule]
        ELSE [global |-> Some(added), file |-> save_settings(added),
              saved |-> TRUE, rule |-> rule]

\* add_allow_rule(tool_name, tool_args) on the module global and the file:
\* the global and the file after the call, whether save_settings was
\* called, and the rule returned.
\* An add_allow_rule that writes the rule to the file and leaves the
\* settings held in memory as they were.
add_allow_rule_on_disk_only(global, file, tool_name, tool_args) ==
  LET settings == get_settings(global, file)
      rule == AllowRuleFor(tool_name, tool_args)
      present == \E i \in 1..Len(settings.permissions.allow) :
                    settings.permissions.allow[i] = rule
      added == [settings EXCEPT !.permissions.allow = Append(@, rule)]
  IN  IF present
        THEN [global |-> Some(settings), file |-> file,
              saved |-> FALSE, rule |-> rule]
        ELSE [global |-> Some(settings), file |-> save_settings(added),
              saved |-> TRUE, rule |-> rule]

add_allow_rule(global, file, tool_name, tool_args) ==
  LET settings == get_settings(global, file)
      rule == AllowRuleFor(tool_name, tool_args)
      present == \E i \in 1..Len(settings.permissions.allow) :
                    settings.permissions.allow[i] = rule
      added == [settings EXCEPT !.permissions.allow = Append(@, rule)]
  IN  IF present
        THEN [global |-> Some(settings), file |-> file,
              saved |-> FALSE, rule |-> rule]
        ELSE [global |-> Some(added), file |-> save_settings(added),
              saved |-> TRUE, rule |-> rule]

\* ------------------------------------------------------------ messages

\* A message content is a sequence of fragments, each a literal text of the
\* source or a formatted value; "x in content" for a phrase x of the source
\* is: x is one of the literal fragments.
Text(s) == [text |-> s]
Value(v) == [value |-> v]

InContent(phrase, content) ==
  \E i \in 1..Len(content) :
    "text" \in DOMAIN content[i] /\ content[i].text = phrase

HumanMessage(content) ==
  [type |-> "human", id |-> None, content |-> content,
   tool_calls |-> <<>>, tool_call_id |-> None, name |-> None]

AIMessage(content, tool_calls) ==
  [type |-> "ai", id |-> None, content |-> content,
   tool_calls |-> tool_calls, tool_call_id |-> None, name |-> None]

ToolMessage(content, tool_call_id, name) ==
  [type |-> "tool", id |-> None, content |-> content,
   tool_calls |-> <<>>, tool_call_id |-> Some(tool_call_id),
   name |-> Some(name)]

\* The add_messages reducer of State.messages: a message of right replaces
\* the message of left with its id, else it is appended; a message without
\* an id is given a fresh one.
RECURSIVE add_messages(_, _)
add_messages(left, right) ==
  IF right = <<>> THEN left
  ELSE LET m == Head(right)
           at == {i \in 1..Len(left) : m.id # None /\ left[i].id = m.id}
           merged ==
             IF at # {}
               THEN [i \in 1..Len(left) |-> IF i \in at THEN m ELSE left[i]]
               ELSE Append(left,
                           IF m.id = None
                             THEN [m EXCEPT !.id = Some(Len(left) + 1)]
                             ELSE m)
       IN  add_messages(merged, Tail(right))

\* ------------------------------------------------------ context window

MAX_CONTEXT_TOKENS == 128000

SystemMessage(content) ==
  [type |-> "system", id |-> None, content |-> content,
   tool_calls |-> <<>>, tool_call_id |-> None, name |-> None]

\* A text that the cl100k_base encoding turns into n tokens.
Tokens(n) == [tokens |-> n]

\* len(encoding.encode(...)) summed over the fragments of a content.
RECURSIVE EncodedLen(_)
EncodedLen(content) ==
  IF content = <<>> THEN 0
  ELSE Head(content).tokens + EncodedLen(Tail(content))

RECURSIVE _count_tokens(_)
_count_tokens(msgs) ==
  IF msgs = <<>> THEN 0
  ELSE EncodedLen(Head(msgs).content) + _count_tokens(Tail(msgs))

RECURSIVE Reverse(_)
Reverse(s) ==
  IF s = <<>> THEN <<>> ELSE Append(Reverse(Tail(s)), Head(s))

\* The "while ... not of type end_on: drop the last" loop of trim_messages.
RECURSIVE EndOn(_, _)
EndOn(msgs, end_on) ==
  IF msgs = <<>> \/ msgs[Len(msgs)].type = end_on THEN msgs
  ELSE EndOn(SubSeq(msgs, 1, Len(msgs) - 1), end_on)

\* trim_messages, strategy "first": the longest prefix of the messages that
\* the counter puts within max_tokens, then cut back to end on a message of
\* type end_on.
_first_max_tokens(msgs, max_tokens, end_on) ==
  LET fits == {k \in 0..Len(msgs) :
                 _count_tokens(SubSeq(msgs, 1, k)) <= max_tokens}
      idx == CHOOSE k \in fits : \A j \in fits : j <= k
  IN  IF end_on = None THEN SubSeq(msgs, 1, idx)
      ELSE EndOn(SubSeq(msgs, 1, idx), end_on[1])

\* trim_messages, strategy "last", include_system = True, allow_partial =
\* False: a system message at index 0 is set aside and paid for first, the
\* rest is reversed, trimmed as by strategy "first" ending on start_on, and
\* reversed back.
_last_max_tokens(msgs, max_tokens, start_on) ==
  IF msgs = <<>> THEN <<>>
  ELSE LET has_system == msgs[1].type = "system"
           system_message == IF has_system THEN <<msgs[1]>> ELSE <<>>
           rest == IF has_system THEN Tail(msgs) ELSE msgs
           system_tokens == _count_tokens(system_message)
           remaining_tokens ==
             IF max_tokens - system_tokens < 0 THEN 0
             ELSE max_tokens - system_tokens
       IN  system_message
             \o Reverse(_first_max_tokens(Reverse(rest), remaining_tokens,
                                          start_on))

\* The trim_messages call without start_on.
trim_messages_no_start_on(msgs) ==
  _last_max_tokens(msgs, MAX_CONTEXT_TOKENS, None)

\* The trim_messages call of call_llm.
trim_messages(msgs) ==
  _last_max_tokens(msgs, MAX_CONTEXT_TOKENS, Some("human"))

\* system_messages of call_llm: the rendered instructions and, when
\* AGENTS.md exists and is not empty, the custom instructions.
SystemMessages(system_instructions, custom_instructions) ==
  <<SystemMessage(system_instructions)>>
    \o (IF custom_instructions # None
           /\ EncodedLen(custom_instructions[1]) > 0
          THEN <<SystemMessage(custom_instructions[1])>>
          ELSE <<>>)

\* ---------------------------------------------------------- turn graph

END == "__end__"
CALL_LLM == "call_llm"
CHECK_TOOL_APPROVAL == "check_tool_approval"
CALL_TOOL == "call_tool"

DENIED_BY_SETTINGS == "denied by settings"
DECLINED_BY_USER == "declined by user"

\* The edge after call_llm ending the turn whatever the model answered.
should_call_tools_end(msgs) == END

\* should_call_tools not looking at the tool calls of the last message.
should_call_tools_always(msgs) ==
  IF msgs = <<>> THEN END
  ELSE IF msgs[Len(msgs)].type # "ai" THEN END
  ELSE CHECK_TOOL_APPROVAL

\* The conditional edge after call_llm.
should_call_tools(msgs) ==
  IF msgs = <<>> THEN END
  ELSE LET last_message == msgs[Len(msgs)]
       IN  IF last_message.type # "ai" THEN END
           ELSE IF last_message.tool_calls # <<>> THEN CHECK_TOOL_APPROVAL
           ELSE END

\* should_execute_tools going to the tools whatever the last message is.
should_execute_tools_always(msgs) == CALL_TOOL

\* should_execute_tools looking for the user's decline only.
should_execute_tools_user_only(msgs) ==
  IF msgs = <<>> THEN CALL_TOOL
  ELSE LET last_message == msgs[Len(msgs)]
       IN  IF /\ last_message.type = "tool"
              /\ InContent(DECLINED_BY_USER, last_message.content)
             THEN CALL_LLM
             ELSE CALL_TOOL

\* The conditional edge after check_tool_approval.
should_execute_tools(msgs) ==
  IF msgs = <<>> THEN CALL_TOOL
  ELSE LET last_message == msgs[Len(msgs)]
       IN  IF /\ last_message.type = "tool"
              /\ \/ InContent(DECLINED_BY_USER, last_message.content)
                 \/ InContent(DENIED_BY_SETTINGS, last_message.content)
             THEN CALL_LLM
             ELSE CALL_TOOL

\* The payload with the call id left at a default.
InterruptPayloadZeroId(tool_call) ==
  [type |-> "tool_approval",
   tool_name |-> tool_call.name,
   tool_args |-> tool_call.args,
   tool_call_id |-> 0]

\* The value check_tool_approval passes to interrupt() for a tool call.
InterruptPayload(tool_call) ==
  [type |-> "tool_approval",
   tool_name |-> tool_call.name,
   tool_args |-> tool_call.args,
   tool_call_id |-> tool_call.id]

\* The loop putting the id of the first call of the batch on every decline
\* message.
RECURSIVE ApprovalLoopFirstId(_, _, _, _)
ApprovalLoopFirstId(tool_calls, i, resumes, declined_messages) ==
  IF i > Len(tool_calls)
    THEN [interrupt |-> None, declined_messages |-> declined_messages]
  ELSE IF i > Len(resumes)
    THEN [interrupt |-> Some(InterruptPayload(tool_calls[i])),
          declined_messages |-> <<>>]
  ELSE LET tool_call == tool_calls[i]
           approval == resumes[i]
           reason == Get(approval, "reason", DECLINED_BY_USER)
       IN  IF ~Get(approval, "approved", FALSE)
             THEN ApprovalLoopFirstId(tool_calls, i + 1, resumes,
                    Append(declined_messages,
                           ToolMessage(<<Text("Tool '"), Value(tool_call.name),
                                         Text("' "), Text(reason),
                                         Text(".")>>,
                                       tool_calls[1].id, tool_call.name)))
             ELSE ApprovalLoopFirstId(tool_calls, i + 1, resumes,
                                      declined_messages)

\* The "for tool_call in last_message.tool_calls" loop of
\* check_tool_approval, run from call i with the decline messages made so
\* far. The i-th interrupt() of a run returns the i-th resume value the
\* checkpoint holds for the task and, when there is none, suspends the
\* graph with its payload.
RECURSIVE ApprovalLoop(_, _, _, _)
ApprovalLoop(tool_calls, i, resumes, declined_messages) ==
  IF i > Len(tool_calls)
    THEN [interrupt |-> None, declined_messages |-> declined_messages]
  ELSE IF i > Len(resumes)
    THEN [interrupt |-> Some(InterruptPayload(tool_calls[i])),
          declined_messages |-> <<>>]
  ELSE LET tool_call == tool_calls[i]
           approval == resumes[i]
           reason == Get(approval, "reason", DECLINED_BY_USER)
       IN  IF ~Get(approval, "approved", FALSE)
             THEN ApprovalLoop(tool_calls, i + 1, resumes,
                    Append(declined_messages,
                           ToolMessage(<<Text("Tool '"), Value(tool_call.name),
                                         Text("' "), Text(reason),
                                         Text(".")>>,
                                       tool_call.id, tool_call.name)))
             ELSE ApprovalLoop(tool_calls, i + 1, resumes, declined_messages)

\* check_tool_approval without interrupt(): every call counts as approved.
check_tool_approval_no_interrupt(msgs, resumes) ==
  [interrupt |-> None, declined_messages |-> <<>>]

\* check_tool_approval going through the calls from the last to the first.
check_tool_approval_reversed(msgs, resumes) ==
  IF msgs = <<>> THEN [interrupt |-> None, declined_messages |-> <<>>]
  ELSE LET last_message == msgs[Len(msgs)]
       IN  IF last_message.type # "ai" \/ last_message.tool_calls = <<>>
             THEN [interrupt |-> None, declined_messages |-> <<>>]
           ELSE ApprovalLoop(Reverse(last_message.tool_calls), 1, resumes,
                             <<>>)

\* check_tool_approval asking from the first call again on every run that
\* has not got a value for each call yet.
check_tool_approval_restart(msgs, resumes) ==
  IF msgs = <<>> THEN [interrupt |-> None, declined_messages |-> <<>>]
  ELSE LET last_message == msgs[Len(msgs)]
       IN  IF last_message.type # "ai" \/ last_message.tool_calls = <<>>
             THEN [interrupt |-> None, declined_messages |-> <<>>]
           ELSE IF Len(resumes) < Len(last_message.tool_calls)
             THEN [interrupt |->
                     Some(InterruptPayload(last_message.tool_calls[1])),
                   declined_messages |-> <<>>]
           ELSE ApprovalLoop(last_message.tool_calls, 1, resumes, <<>>)

\* One run of the check_tool_approval node on the state and the resume
\* values: a pending interrupt, or the node's update {"messages": ...}.
check_tool_approval(msgs, resumes) ==
  IF msgs = <<>> THEN [interrupt |-> None, declined_messages |-> <<>>]
  ELSE LET last_message == msgs[Len(msgs)]
       IN  IF last_message.type # "ai" \/ last_message.tool_calls = <<>>
             THEN [interrupt |-> None, declined_messages |-> <<>>]
             ELSE ApprovalLoop(last_message.tool_calls, 1, resumes, <<>>)

\* ------------------------------------------------------ terminal loop

APPROVED == [approved |-> TRUE]
Refused(reason) == [approved |-> FALSE, reason |-> reason]

\* The answers RichPrompt.ask accepts, by what prompt_tool_approval does
\* with them: (y)es, (a)lways, and everything else.
Choices == {"y", "yes", "a", "always", "n", "no"}

\* prompt_tool_approval with the user's answer: the approval returned and
\* what the call leaves in the settings global and file.
\* A prompt_tool_approval that remembers every approval, 'yes' as well as
\* 'always', as an allow rule.
prompt_tool_approval_remembers(global, file, tool_name, tool_args, choice) ==
  IF choice \in {"y", "yes", "a", "always"}
    THEN LET r == add_allow_rule(global, file, tool_name, tool_args)
         IN  [approval |-> APPROVED, global |-> r.global, file |-> r.file,
              saved |-> r.saved]
    ELSE [approval |-> Refused(DECLINED_BY_USER), global |-> global,
          file |-> file, saved |-> FALSE]

prompt_tool_approval(global, file, tool_name, tool_args, choice) ==
  IF choice \in {"y", "yes"}
    THEN [approval |-> APPROVED, global |-> global, file |-> file,
          saved |-> FALSE]
  ELSE IF choice \in {"a", "always"}
    THEN LET r == add_allow_rule(global, file, tool_name, tool_args)
         IN  [approval |-> APPROVED, global |-> r.global, file |-> r.file,
              saved |-> r.saved]
  ELSE [approval |-> Refused(DECLINED_BY_USER), global |-> global,
        file |-> file, saved |-> FALSE]

\* check_tool_permission asking the user also about a call that a deny
\* rule matches.
check_tool_permission_ask_denied(global, file, tool_name, tool_args, choice) ==
  LET settings == get_settings(global, file)
      permission == check_permission(settings, tool_name, tool_args)
  IN  IF permission = PermTrue
        THEN [approval |-> APPROVED, global |-> Some(settings),
              file |-> file, saved |-> FALSE, prompted |-> FALSE]
      ELSE LET r == prompt_tool_approval(Some(settings), file, tool_name,
                                         tool_args, choice)
           IN  [approval |-> r.approval, global |-> r.global,
                file |-> r.file, saved |-> r.saved, prompted |-> TRUE]

\* check_tool_permission with the answer the user gives if prompted.
check_tool_permission(global, file, tool_name, tool_args, choice) ==
  LET settings == get_settings(global, file)
      permission == check_permission(settings, tool_name, tool_args)
  IN  IF permission = PermTrue
        THEN [approval |-> APPROVED, global |-> Some(settings),
              file |-> file, saved |-> FALSE, prompted |-> FALSE]
      ELSE IF permission = PermFalse
        THEN [approval |-> Refused(DENIED_BY_SETTINGS),
              global |-> Some(settings), file |-> file, saved |-> FALSE,
              prompted |-> FALSE]
      ELSE LET r == prompt_tool_approval(Some(settings), file, tool_name,
                                         tool_args, choice)
           IN  [approval |-> r.approval, global |-> r.global,
                file |-> r.file, saved |-> r.saved, prompted |-> TRUE]

\* ------------------------------------------------------------- state

VARIABLES
  settings_file,  \* .helix/settings.json: None, or Some(decoded JSON object)
  _settings,      \* settings._settings: None, or Some(Settings)
  saved,          \* whether the last step called save_settings
  messages,       \* State.messages of thread "helix-main" in the checkpointer
  next,           \* the node the checkpoint of the thread names as next
  resume,         \* resume values the checkpoint holds for the pending task
  interrupts,     \* the pending task's interrupt: None, or Some(payload)
  gui,            \* run_interaction_loop: "prompt", "stream" or "exit"
  _todos,         \* tools._todos
  approved,       \* history: ids of the calls resumed with approved = True
  declined,       \* history: ids of the calls resumed with approved = False
  executed,       \* history: ids of the calls call_tool has executed
  asked,          \* history: the interrupts put to check_tool_permission
  probe           \* the last function application of the function specs

vars ==
  <<settings_file, _settings, saved, messages, next, resume, interrupts,
    gui, _todos, approved, declined, executed, asked, probe>>

settings_vars == <<settings_file, _settings, saved>>
graph_vars == <<messages, next, resume, interrupts>>
history_vars == <<approved, declined, executed, asked>>

\* ------------------------------------------------------------- inputs

Rule(tool_name, pattern) == tool_name \o <<"(">> \o pattern \o <<")">>

\* The tool calls the model is given to choose from.
CallSet ==
  {[name |-> RUN_SHELL_COMMAND, args |-> [command |-> <<"u", SP, "v">>]],
   [name |-> RUN_SHELL_COMMAND, args |-> [command |-> <<"u">>]],
   [name |-> WRITE_TODOS, args |-> [todos |-> <<"v">>]]}

\* The settings files the process may find at start: none, an empty
\* object, and the rule sets of the scenarios.
SettingsFiles ==
  {None,
   Some(<<>>),
   Some([permissions |-> [allow |-> <<WRITE_TODOS>>]]),
   Some([permissions |->
           [allow |-> <<Rule(RUN_SHELL_COMMAND, <<"u">> \o WILDCARD)>>,
            deny |-> <<Rule(RUN_SHELL_COMMAND,
                            <<"u", SP, "v">> \o WILDCARD)>>],
         model |-> "llama3",
         context_window_size |-> 32000]),
   Some([permissions |->
           [allow |-> <<WRITE_TODOS>>, deny |-> <<WRITE_TODOS>>]]),
   Some([permissions |->
           [deny |-> <<Rule(RUN_SHELL_COMMAND,
                            <<"u", SP, "v">> \o WILDCARD)>>]])}

NoProbe == [op |-> "none"]

\* Number of Human messages / of tool calls in the conversation.
RECURSIVE NumHuman(_)
NumHuman(msgs) ==
  IF msgs = <<>> THEN 0
  ELSE (IF Head(msgs).type = "human" THEN 1 ELSE 0) + NumHuman(Tail(msgs))

RECURSIVE NumCalls(_)
NumCalls(msgs) ==
  IF msgs = <<>> THEN 0 ELSE Len(Head(msgs).tool_calls) + NumCalls(Tail(msgs))

\* The batches of at most n tool calls, with ids from first on.
Batches(n, first) ==
  {[i \in 1..Len(b) |->
      [id |-> first + i - 1, name |-> b[i].name, args |-> b[i].args]] :
    b \in UNION {[1..k -> CallSet] : k \in 0..n}}

\* ------------------------------------------------------------ actions

Init ==
  /\ settings_file \in SettingsFiles
  /\ _settings = None
  /\ saved = FALSE
  /\ messages = <<>>
  /\ next = END
  /\ resume = <<>>
  /\ interrupts = None
  /\ gui = "prompt"
  /\ _todos = <<>>
  /\ approved = {}
  /\ declined = {}
  /\ executed = {}
  /\ asked = <<>>
  /\ probe = NoProbe

\* The graph of the thread has halted: its run ended or it is suspended.
Halted == next = END \/ interrupts # None

\* run_interaction_loop reads a prompt and invoke_agent starts the graph
\* on it: the input is merged into the state and call_llm is next.
invoke_agent ==
  /\ gui = "prompt"
  /\ NumHuman(messages) < MaxTurns
  /\ messages' = add_messages(messages, <<HumanMessage(<<Text("prompt")>>)>>)
  /\ next' = CALL_LLM
  /\ resume' = <<>>
  /\ interrupts' = None
  /\ gui' = "stream"
  /\ saved' = FALSE
  /\ UNCHANGED <<settings_file, _settings, _todos, history_vars, probe>>

\* The call_llm node: the model answers with a message carrying a batch
\* of tool calls (possibly none), and should_call_tools routes.
call_llm ==
  /\ gui = "stream"
  /\ ~Halted
  /\ next = CALL_LLM
  /\ \E tool_calls \in
         Batches(IF MaxCalls - NumCalls(messages) < MaxBatch
                   THEN MaxCalls - NumCalls(messages) ELSE MaxBatch,
                 NumCalls(messages) + 1) :
       LET response == AIMessage(<<Text("response")>>, tool_calls)
           msgs == add_messages(messages, <<response>>)
       IN  /\ messages' = msgs
           /\ next' = should_call_tools(msgs)
  /\ saved' = FALSE
  /\ UNCHANGED <<settings_file, _settings, resume, interrupts, gui, _todos,
                 history_vars, probe>>

\* One run of the check_tool_approval node (the first, or the re-run that
\* follows a resume): it suspends on the first call without a resume
\* value, or returns its update and should_execute_tools routes.
check_tool_approval_node ==
  /\ gui = "stream"
  /\ ~Halted
  /\ next = CHECK_TOOL_APPROVAL
  /\ LET r == check_tool_approval(messages, resume)
         msgs == add_messages(messages, r.declined_messages)
     IN  IF r.interrupt # None
           THEN /\ interrupts' = r.interrupt
                /\ UNCHANGED <<messages, next, resume>>
           ELSE /\ messages' = msgs
                /\ next' = should_execute_tools(msgs)
                /\ resume' = <<>>
                /\ interrupts' = None
  /\ saved' = FALSE
  /\ UNCHANGED <<settings_file, _settings, gui, _todos, history_vars, probe>>

\* write_todos replaces the todo list; the other tools leave it alone.
RECURSIVE TodosAfter(_, _)
TodosAfter(todos, tool_calls) ==
  IF tool_calls = <<>> THEN todos
  ELSE TodosAfter(IF Head(tool_calls).name = WRITE_TODOS
                    THEN Get(Head(tool_calls).args, "todos", <<>>)
                    ELSE todos,
                  Tail(tool_calls))

\* A ToolNode that takes the tool calls of the first Assistant message.
RECURSIVE FirstToolCalls(_)
FirstToolCalls(msgs) ==
  IF msgs = <<>> THEN <<>>
  ELSE IF Head(msgs).type = "ai" THEN Head(msgs).tool_calls
  ELSE FirstToolCalls(Tail(msgs))

\* The tool calls ToolNode takes from the state: those of the latest
\* Assistant message.
RECURSIVE LatestToolCalls(_)
LatestToolCalls(msgs) ==
  IF msgs = <<>> THEN <<>>
  ELSE IF msgs[Len(msgs)].type = "ai" THEN msgs[Len(msgs)].tool_calls
  ELSE LatestToolCalls(SubSeq(msgs, 1, Len(msgs) - 1))

\* The call_tool node, ToolNode(TOOLS): every tool call of the latest
\* Assistant message is executed and answered by a Tool message.
\* A call_tool node that runs the first call of the batch only.
call_tool_first_only ==
  /\ gui = "stream"
  /\ ~Halted
  /\ next = CALL_TOOL
  /\ LET tool_calls == SubSeq(LatestToolCalls(messages), 1, 1)
         results == [i \in 1..Len(tool_calls) |->
                       ToolMessage(<<Text("result")>>, tool_calls[i].id,
                                   tool_calls[i].name)]
     IN  /\ messages' = add_messages(messages, results)
         /\ executed' =
              executed \cup {tool_calls[i].id : i \in 1..Len(tool_calls)}
         /\ _todos' = TodosAfter(_todos, tool_calls)
  /\ next' = CALL_LLM
  /\ saved' = FALSE
  /\ UNCHANGED <<settings_file, _settings, resume, interrupts, gui,
                 approved, declined, asked, probe>>

call_tool ==
  /\ gui = "stream"
  /\ ~Halted
  /\ next = CALL_TOOL
  /\ LET tool_calls == LatestToolCalls(messages)
         results == [i \in 1..Len(tool_calls) |->
                       ToolMessage(<<Text("result")>>, tool_calls[i].id,
                                   tool_calls[i].name)]
     IN  /\ messages' = add_messages(messages, results)
         /\ executed' =
              executed \cup {tool_calls[i].id : i \in 1..Len(tool_calls)}
         /\ _todos' = TodosAfter(_todos, tool_calls)
  /\ next' = CALL_LLM
  /\ saved' = FALSE
  /\ UNCHANGED <<settings_file, _settings, resume, interrupts, gui,
                 approved, declined, asked, probe>>

\* invoke_agent after the stream ended on an interrupt: the payload goes
\* through check_tool_permission (the user answers choice if prompted) and
\* the graph is resumed with Command(resume=approval).
resume_interrupt(choice) ==
  /\ gui = "stream"
  /\ interrupts # None
  /\ LET payload == interrupts[1]
         r == check_tool_permission(_settings, settings_file,
                                    payload.tool_name, payload.tool_args,
                                    choice)
     IN  /\ payload.type = "tool_approval"
         /\ _settings' = r.global
         /\ settings_file' = r.file
         /\ saved' = r.saved
         /\ resume' = Append(resume, r.approval)
         /\ approved' = IF r.approval.approved
                          THEN approved \cup {payload.tool_call_id}
                          ELSE approved
         /\ declined' = IF r.approval.approved
                          THEN declined
                          ELSE declined \cup {payload.tool_call_id}
         /\ asked' = Append(asked,
                            [tool_call_id |-> payload.tool_call_id,
                             permission |->
                               check_permission(
                                 get_settings(_settings, settings_file),
                                 payload.tool_name, payload.tool_args),
                             prompted |-> r.prompted,
                             saved |-> r.saved,
                             approval |-> r.approval])
  /\ interrupts' = None
  /\ UNCHANGED <<messages, next, gui, _todos, executed, probe>>

\* invoke_agent after the stream ended with no interrupt: it returns to
\* the prompt.
invoke_agent_return ==
  /\ gui = "stream"
  /\ interrupts = None
  /\ next = END
  /\ gui' = "prompt"
  /\ saved' = FALSE
  /\ UNCHANGED <<settings_file, _settings, graph_vars, _todos, history_vars,
                 probe>>

\* The /clear command: graph.update_state(config, {"messages": []}) goes
\* through the add_messages reducer, then clear_todos().
clear_conversation ==
  /\ gui = "prompt"
  /\ messages' = add_messages(messages, <<>>)
  /\ _todos' = <<>>
  /\ saved' = FALSE
  /\ UNCHANGED <<settings_file, _settings, next, resume, interrupts, gui,
                 history_vars, probe>>

\* /exit, Ctrl-C or end of input at the prompt.
exit ==
  /\ gui = "prompt"
  /\ gui' = "exit"
  /\ saved' = FALSE
  /\ UNCHANGED <<settings_file, _settings, graph_vars, _todos, history_vars,
                 probe>>

Next ==
  \/ invoke_agent
  \/ call_llm
  \/ check_tool_approval_node
  \/ call_tool
  \/ \E choice \in Choices : resume_interrupt(choice)
  \/ invoke_agent_return
  \/ clear_conversation
  \/ exit

Spec == Init /\ [][Next]_vars

\* The first turn of a session under the scheduling it runs with: the
\* graph runs the node it has next, and invoke_agent returns once the
\* stream has ended. When the responder answers is left open. The model
\* answers without tool calls at the latest when MaxCalls calls were made.
first_prompt == invoke_agent /\ messages = <<>>

NextLive ==
  \/ first_prompt
  \/ call_llm
  \/ check_tool_approval_node
  \/ call_tool
  \/ \E choice \in Choices : resume_interrupt(choice)
  \/ invoke_agent_return

Fairness ==
  /\ WF_vars(call_llm)
  /\ WF_vars(check_tool_approval_node)
  /\ WF_vars(call_tool)
  /\ WF_vars(invoke_agent_return)

SpecLive == Init /\ [][NextLive]_vars /\ Fairness

\* ------------------------------------------------------ process restart

\* The process is stopped at the approval prompt of a suspended turn:
\* Ctrl-C in RichPrompt.ask is a KeyboardInterrupt, which invoke_agent's
\* "except Exception" lets through to run_gui.
stop_while_suspended ==
  /\ gui = "stream"
  /\ interrupts # None
  /\ gui' = "exit"
  /\ saved' = FALSE
  /\ UNCHANGED <<settings_file, _settings, graph_vars, _todos, history_vars,
                 probe>>

\* The program is started again: the modules are loaded anew, with
\* checkpointer = MemorySaver(), _settings = None and _todos = []; the
\* settings file is what the process before left.
restart ==
  /\ gui = "exit"
  /\ _settings' = None
  /\ saved' = FALSE
  /\ messages' = <<>>
  /\ next' = END
  /\ resume' = <<>>
  /\ interrupts' = None
  /\ gui' = "prompt"
  /\ _todos' = <<>>
  /\ approved' = {}
  /\ declined' = {}
  /\ executed' = {}
  /\ asked' = <<>>
  /\ UNCHANGED <<settings_file, probe>>

NextRestart ==
  \/ Next
  \/ stop_while_suspended
  \/ restart

SpecRestart == Init /\ [][NextRestart]_vars

\* ------------------------------------------- failure and cancellation

\* The calls of a batch that have run when the batch is cut short: the
\* tools of a batch run side by side, so any of them may have finished.
RECURSIVE SubBatches(_)
SubBatches(tool_calls) ==
  IF tool_calls = <<>> THEN {<<>>}
  ELSE LET rest == SubBatches(Tail(tool_calls))
       IN  rest \cup {<<Head(tool_calls)>> \o r : r \in rest}

\* model.ainvoke raises in call_llm (the model cannot be reached): the
\* node writes nothing, the exception leaves graph.astream and
\* invoke_agent's "except Exception" prints the error panel and returns.
\* The checkpoint of the thread stays as the steps before left it.
model_fails ==
  /\ gui = "stream"
  /\ ~Halted
  /\ next = CALL_LLM
  /\ gui' = "prompt"
  /\ saved' = FALSE
  /\ UNCHANGED <<settings_file, _settings, graph_vars, _todos, history_vars,
                 probe>>

\* A cancellation that leaves behind the Tool messages of the calls that
\* had finished.
cancelled_partial ==
  /\ gui = "stream"
  /\ ~Halted
  /\ next \in {CALL_LLM, CALL_TOOL}
  /\ \E done \in SubBatches(IF next = CALL_TOOL
                              THEN LatestToolCalls(messages) ELSE <<>>) :
       /\ executed' = executed \cup {done[i].id : i \in 1..Len(done)}
       /\ _todos' = TodosAfter(_todos, done)
       /\ messages' =
            add_messages(messages,
                         [i \in 1..Len(done) |->
                            ToolMessage(<<Text("result")>>, done[i].id,
                                        done[i].name)])
  /\ gui' = "exit"
  /\ saved' = FALSE
  /\ probe' = [op |-> "invoke_agent", raised |-> Some("CancelledError"),
               console |-> None]
  /\ UNCHANGED <<settings_file, _settings, next, resume, interrupts,
                 approved, declined, asked>>

\* The invoke_agent task is cancelled while the graph is streaming, in the
\* model call or in the tool batch: the node in flight writes nothing, the
\* tools that had finished keep their effects, CancelledError is no
\* Exception and passes invoke_agent's handler without a print, and the
\* program ends in run_gui.
cancelled ==
  /\ gui = "stream"
  /\ ~Halted
  /\ next \in {CALL_LLM, CALL_TOOL}
  /\ \E done \in SubBatches(IF next = CALL_TOOL
                              THEN LatestToolCalls(messages) ELSE <<>>) :
       /\ executed' = executed \cup {done[i].id : i \in 1..Len(done)}
       /\ _todos' = TodosAfter(_todos, done)
  /\ gui' = "exit"
  /\ saved' = FALSE
  /\ probe' = [op |-> "invoke_agent", raised |-> Some("CancelledError"),
               console |-> None]
  /\ UNCHANGED <<settings_file, _settings, graph_vars, approved, declined,
                 asked>>

NextFailure ==
  \/ Next
  \/ model_fails

SpecFailure == Init /\ [][NextFailure]_vars

NextCancel ==
  \/ Next
  \/ cancelled

SpecCancel == Init /\ [][NextCancel]_vars

\* -------------------------------------------------------------- tools

\* What the call of a tool function leaves: the text it returns or the
\* exception it raises, and tools._todos after it.
Returned(content, todos) ==
  [raised |-> None, content |-> content, todos |-> todos]
Raised(exc, todos) == [raised |-> Some(exc), content |-> <<>>, todos |-> todos]

Min(a, b) == IF a < b THEN a ELSE b

\* The file system at a path, as a tool finds it: kind is "missing" (no
\* file; parent tells whether its directory exists), "denied" (open raises
\* PermissionError), "directory" (open raises another OSError), "readonly"
\* (open for writing raises PermissionError) or "file"; lines is what
\* readlines() returns.
File(kind, parent, lines) == [kind |-> kind, parent |-> parent, lines |-> lines]

\* read_file: every exception of open() and of the reads is caught and
\* returned as text; so are the line numbers out of range.
read_file(file, path, start_line, end_line) ==
  IF file.kind = "missing"
    THEN <<Text("Error: File not found: "), Value(path)>>
  ELSE IF file.kind = "denied"
    THEN <<Text("Error: Permission denied: "), Value(path)>>
  ELSE IF file.kind = "directory"
    THEN <<Text("Error reading file: "), Value("IsADirectoryError")>>
  ELSE IF start_line < 1
    THEN <<Text("Error: start_line must be >= 1.")>>
  ELSE IF start_line - 1 >= Len(file.lines)
    THEN <<Text("Error: start_line "), Value(start_line),
           Text(" exceeds file length ("), Value(Len(file.lines)),
           Text(" lines).")>>
  ELSE IF end_line # -1 /\ end_line < start_line
    THEN <<Text("Error: end_line must be >= start_line.")>>
  ELSE LET end_idx == IF end_line = -1 THEN Len(file.lines)
                      ELSE Min(end_line, Len(file.lines))
       IN  [i \in 1..(end_idx - start_line + 1) |->
              Value([number |-> start_line + i - 1,
                     line |-> file.lines[start_line + i - 1]])]

\* write_file: a missing parent directory and every exception of open()
\* for writing are returned as text.
write_file(file, path, content) ==
  IF ~file.parent
    THEN <<Text("Error: Directory does not exist: "), Value(path)>>
  ELSE IF file.kind \in {"denied", "readonly"}
    THEN <<Text("Error: Permission denied: "), Value(path)>>
  ELSE IF file.kind = "directory"
    THEN <<Text("Error writing file: "), Value("IsADirectoryError")>>
  ELSE <<Text("Successfully wrote to "), Value(path)>>

\* insert_text: a missing file, a line number out of range and every
\* exception of the two open() calls are returned as text.
insert_text(file, path, content, line_number) ==
  IF file.kind = "missing"
    THEN <<Text("Error: File not found: "), Value(path)>>
  ELSE IF file.kind = "denied"
    THEN <<Text("Error: Permission denied: "), Value(path)>>
  ELSE IF file.kind = "directory"
    THEN <<Text("Error inserting text: "), Value("IsADirectoryError")>>
  ELSE IF line_number < 1
    THEN <<Text("Error: line_number must be >= 1.")>>
  ELSE IF line_number > Len(file.lines) + 1
    THEN <<Text("Error: line_number "), Value(line_number),
           Text(" exceeds file length + 1 ("),
           Value(Len(file.lines) + 1), Text(").")>>
  ELSE IF file.kind = "readonly"
    THEN <<Text("Error: Permission denied: "), Value(path)>>
  ELSE <<Text("Successfully inserted text at line "), Value(line_number),
         Text(" in "), Value(path)>>

\* f.readlines() on the text of a file: the lines with their line ends,
\* the last one without if the text does not end in a newline.
RECURSIVE ReadLinesFrom(_, _)
ReadLinesFrom(text, line) ==
  IF text = <<>> THEN (IF line = <<>> THEN <<>> ELSE <<line>>)
  ELSE IF Head(text) = NL
    THEN <<Append(line, NL)>> \o ReadLinesFrom(Tail(text), <<>>)
  ELSE ReadLinesFrom(Tail(text), Append(line, Head(text)))

ReadLines(text) == ReadLinesFrom(text, <<>>)

\* f.writelines(lines): the strings one after the other.
RECURSIVE WriteLines(_)
WriteLines(lines) ==
  IF lines = <<>> THEN <<>> ELSE Head(lines) \o WriteLines(Tail(lines))

\* list.insert(index, item) for 0 <= index <= len(list).
ListInsert(list, index, item) ==
  SubSeq(list, 1, index) \o <<item>> \o SubSeq(list, index + 1, Len(list))

\* The text insert_text leaves in a readable and writable file: content,
\* given a line end if it is not empty and has none, is inserted into the
\* list of lines before line line_number and the list is written back; a
\* line number out of range leaves the file alone.
insert_text_file(text, content, line_number) ==
  LET lines == ReadLines(text)
  IN  IF line_number < 1 \/ line_number > Len(lines) + 1 THEN text
      ELSE LET ended == IF content # <<>> /\ ~EndsWith(content, <<NL>>)
                          THEN content \o <<NL>> ELSE content
           IN  WriteLines(ListInsert(lines, line_number - 1, ended))

\* A run of subprocess.run: kind is "timeout" (TimeoutExpired after the 60
\* seconds), "oserror" (the shell could not be started) or "completed".
Run(kind, stdout, stderr, returncode) ==
  [kind |-> kind, stdout |-> stdout, stderr |-> stderr,
   returncode |-> returncode]

\* A run_shell_command that lets the timeout of subprocess.run escape.
run_shell_command_raises(run) ==
  IF run.kind = "timeout" THEN Raised("TimeoutExpired", <<>>)
  ELSE Returned(<<Value(run.stdout)>>, <<>>)

\* run_shell_command: the timeout and every other exception are returned
\* as text; else the stripped output, or the exit code if there is none.
run_shell_command(run) ==
  IF run.kind = "timeout"
    THEN Returned(<<Text("Error: Command timed out after 60 seconds.")>>,
                  <<>>)
  ELSE IF run.kind = "oserror"
    THEN Returned(<<Text("Error executing command: "), Value("OSError")>>,
                  <<>>)
  ELSE LET output ==
             IF run.stderr # <<>>
               THEN (IF run.stdout # <<>>
                       THEN run.stdout \o <<NL>> \o run.stderr
                       ELSE run.stderr)
               ELSE run.stdout
       IN  IF Strip(output) = <<>>
             THEN Returned(<<Text("Command executed successfully (exit code "),
                             Value(run.returncode), Text(").")>>, <<>>)
             ELSE Returned(<<Value(Strip(output))>>, <<>>)

\* TodoStatus.
valid_statuses == {"pending", "in_progress", "completed"}

\* A todo item as the model sends it; a key it left out is None.
TodoItem(description, status) ==
  [description |-> description, status |-> status]

\* The validation of the arguments against the schema of write_todos: every
\* item has its two keys.
ValidTodos(todos) ==
  \A i \in 1..Len(todos) :
    todos[i].description # None /\ todos[i].status # None

\* write_todos: an item with a status outside TodoStatus gives an error
\* text and leaves the list alone; else the list is replaced.
write_todos(todos, current) ==
  IF \E i \in 1..Len(todos) : todos[i].status[1] \notin valid_statuses
    THEN LET i == CHOOSE j \in 1..Len(todos) :
                    /\ todos[j].status[1] \notin valid_statuses
                    /\ \A k \in 1..(j - 1) :
                         todos[k].status[1] \in valid_statuses
         IN  Returned(<<Text("Error: Invalid status '"),
                        Value(todos[i].status[1]),
                        Text("'. Must be one of: "), Value(valid_statuses),
                        Text(".")>>, current)
  ELSE Returned(<<Text("Successfully updated todo list with "),
                  Value(Len(todos)), Text(" item(s).")>>, todos)

\* read_todos.
read_todos(current) == <<Value(current)>>

\* tool.invoke of the tool a call names, on the environment env it meets:
\* the arguments are validated against the tool's schema, then the function
\* runs.
invoke_tool(call, env, current) ==
  IF call.name = READ_FILE
    THEN Returned(read_file(env, call.args.path, call.args.start_line,
                            call.args.end_line), current)
  ELSE IF call.name = WRITE_FILE
    THEN Returned(write_file(env, call.args.path, call.args.content),
                  current)
  ELSE IF call.name = INSERT_TEXT
    THEN Returned(insert_text(env, call.args.path, call.args.content,
                              call.args.line_number), current)
  ELSE IF call.name = RUN_SHELL_COMMAND
    THEN [run_shell_command(env) EXCEPT !.todos = current]
  ELSE IF call.name = WRITE_TODOS
    THEN (IF ValidTodos(call.args.todos)
            THEN write_todos(call.args.todos, current)
            ELSE Raised("ValidationError", current))
  ELSE Returned(read_todos(current), current)

\* What ToolNode makes of the result of a call: the Tool message of the
\* returned text; for arguments the schema rejects, the Tool message of the
\* error; for any other exception of a tool, the Tool message of the error
\* or, where ToolNode is built to let it pass, the exception (None).
ToolNodeOutcomes(call, result) ==
  IF result.raised = None
    THEN {Some(ToolMessage(result.content, call.id, call.name))}
  ELSE {Some(ToolMessage(<<Text("Error: "), Value(result.raised[1]),
                           Text("\n Please fix your mistakes.")>>,
                         call.id, call.name))}
       \cup (IF result.raised = Some("ValidationError") THEN {} ELSE {None})

\* -------------------------------------------- function specifications

\* The state of a process that has started and done nothing yet, on file.
Started(file) ==
  /\ settings_file = file
  /\ _settings = None
  /\ saved = FALSE
  /\ messages = <<>>
  /\ next = END
  /\ resume = <<>>
  /\ interrupts = None
  /\ gui = "prompt"
  /\ _todos = <<>>
  /\ approved = {}
  /\ declined = {}
  /\ executed = {}
  /\ asked = <<>>

\* _match_command_pattern applied to a command and a pattern: a wildcard
\* pattern made of a prefix, the same followed by a space, or a pattern
\* without the wildcard suffix.
Commands == StringsUpTo(Alphabet, MaxCmdLen)
Prefixes == StringsUpTo(Alphabet, MaxPrefixLen)
Patterns ==
  {p \o WILDCARD : p \in Prefixes}
  \cup {p \o WILDCARD \o <<SP>> : p \in Prefixes}
  \cup Commands

InitMatch ==
  /\ Started(None)
  /\ \E command \in Commands, pattern \in Patterns :
       probe = [op |-> "input", command |-> command, pattern |-> pattern]

match_command_pattern_step ==
  /\ probe.op = "input"
  /\ probe' = [op |-> "_match_command_pattern", command |-> probe.command,
               pattern |-> probe.pattern,
               result |-> _match_command_pattern(probe.command,
                                                 probe.pattern)]
  /\ UNCHANGED <<settings_vars, graph_vars, gui, _todos, history_vars>>

NextMatch == match_command_pattern_step

SpecMatch == InitMatch /\ [][NextMatch]_vars

\* The tool calls the policy functions are applied to: shell commands with
\* and without surrounding or inner whitespace, a call without the command
\* argument, and calls of other tools, one with a name that differs from
\* read_file by case only.
READ_FILE_CAP == <<"R", "e", "a", "d", "_", "f", "i", "l", "e">>

PolicyCalls ==
  {[name |-> RUN_SHELL_COMMAND, args |-> [command |-> c]] :
     c \in {<<"u">>, <<"u", SP, "v">>, <<"u", TAB, "v">>, <<"v">>,
            <<SP, "u", SP>>, <<"u", "v">>, <<SP>>, <<>>}}
  \cup {[name |-> RUN_SHELL_COMMAND, args |-> <<>>],
        [name |-> READ_FILE, args |-> [path |-> <<"u">>]],
        [name |-> READ_FILE, args |-> [command |-> <<"u">>]],
        [name |-> READ_FILE_CAP, args |-> [path |-> <<"u">>]],
        [name |-> WRITE_TODOS, args |-> [todos |-> <<"v">>]]}

\* match_rule applied to a rule and a call: bare tool names, patterns on
\* the shell tool and on another tool, and strings the rule regex rejects.
RuleStrings ==
  {RUN_SHELL_COMMAND, READ_FILE, READ_FILE_CAP, WRITE_TODOS}
  \cup {Rule(t, p) : t \in {RUN_SHELL_COMMAND, READ_FILE, READ_FILE_CAP},
                     p \in {<<"u">> \o WILDCARD, <<"u">>, <<"u", SP, "v">>,
                            <<"u", SP, "v">> \o WILDCARD, WILDCARD,
                            <<SP, "u", SP>>}}
  \cup {RUN_SHELL_COMMAND \o <<"(">>, RUN_SHELL_COMMAND \o <<"(", ")">>,
        RUN_SHELL_COMMAND \o <<"(", "u", ")", "v">>}

match_rule_step(rule, call) ==
  /\ probe.op = "none"
  /\ probe' = [op |-> "match_rule", rule |-> rule, call |-> call,
               result |-> match_rule(rule, call.name, call.args)]
  /\ UNCHANGED <<settings_vars, graph_vars, gui, _todos, history_vars>>

NextRule ==
  \E rule \in RuleStrings, call \in PolicyCalls : match_rule_step(rule, call)

InitRule == Started(None) /\ probe = NoProbe

SpecRule == InitRule /\ [][NextRule]_vars

\* check_permission applied to the loaded settings and a call, as
\* check_tool_permission applies it; the settings file holds any two lists
\* of at most MaxRules rules.
PermRules ==
  {READ_FILE,
   Rule(RUN_SHELL_COMMAND, <<"u">> \o WILDCARD),
   Rule(RUN_SHELL_COMMAND, <<"u", SP, "v">> \o WILDCARD),
   Rule(RUN_SHELL_COMMAND, <<"v">>)}

RuleLists(rules, n) == UNION {[1..k -> rules] : k \in 0..n}

PermFiles ==
  {Some([permissions |-> [allow |-> a, deny |-> d]]) :
     a \in RuleLists(PermRules, MaxRules), d \in RuleLists(PermRules, MaxRules)}

PermCalls ==
  {call \in PolicyCalls :
     /\ call.name \in {RUN_SHELL_COMMAND, READ_FILE, WRITE_TODOS}
     /\ call.name = RUN_SHELL_COMMAND =>
          Get(call.args, "command", <<>>) \in
            {<<"u">>, <<"u", SP, "v">>, <<"v">>, <<SP, "u", SP>>,
             <<"u", "v">>}}

check_permission_step(call) ==
  /\ probe.op = "none"
  /\ LET settings == get_settings(_settings, settings_file)
     IN  /\ _settings' = Some(settings)
         /\ probe' = [op |-> "check_permission", call |-> call,
                      result |-> check_permission(settings, call.name,
                                                  call.args)]
  /\ UNCHANGED <<settings_file, saved, graph_vars, gui, _todos,
                 history_vars>>

NextPerm == \E call \in PermCalls : check_permission_step(call)

InitPerm == probe = NoProbe /\ \E file \in PermFiles : Started(file)

SpecPerm == InitPerm /\ [][NextPerm]_vars

\* add_allow_rule applied to a call, at most MaxAdds times unless the call
\* repeats the one before; the settings file holds any two lists of at
\* most MaxInitRules rules.
AddFiles ==
  {None}
  \cup {Some([permissions |-> [allow |-> a, deny |-> d]]) :
          a \in RuleLists(PermRules, MaxInitRules),
          d \in RuleLists(PermRules, MaxInitRules)}

AddCalls ==
  {call \in PolicyCalls :
     call.name = RUN_SHELL_COMMAND =>
       Get(call.args, "command", <<>>) \in
         {<<"u", SP, "v">>, <<"u", TAB, "v">>, <<"v">>, <<SP>>}}

add_allow_rule_step(call) ==
  /\ LET again == probe.op = "add_allow_rule" /\ probe.call = call
         adds == IF probe.op = "add_allow_rule" THEN probe.adds ELSE 0
         r == add_allow_rule(_settings, settings_file, call.name, call.args)
     IN  /\ again \/ adds < MaxAdds
         /\ _settings' = r.global
         /\ settings_file' = r.file
         /\ saved' = r.saved
         /\ probe' = [op |-> "add_allow_rule", call |-> call,
                      result |-> r.rule, again |-> again,
                      adds |-> IF again THEN adds ELSE adds + 1,
                      allow_before |->
                        get_settings(_settings, settings_file)
                          .permissions.allow]
  /\ UNCHANGED <<graph_vars, gui, _todos, history_vars>>

NextAdd == \E call \in AddCalls : add_allow_rule_step(call)

InitAdd == probe = NoProbe /\ \E file \in AddFiles : Started(file)

SpecAdd == InitAdd /\ [][NextAdd]_vars

\* check_tool_permission applied to a call, with the answer the user would
\* give to a prompt; the settings file is missing or holds any two lists of
\* at most MaxInitRules rules.
check_tool_permission_step(call, choice) ==
  /\ probe.op = "none"
  /\ LET r == check_tool_permission(_settings, settings_file, call.name,
                                    call.args, choice)
     IN  /\ _settings' = r.global
         /\ settings_file' = r.file
         /\ saved' = r.saved
         /\ probe' = [op |-> "check_tool_permission", call |-> call,
                      choice |-> choice,
                      permission |->
                        check_permission(
                          get_settings(_settings, settings_file),
                          call.name, call.args),
                      file_before |-> settings_file,
                      result |-> r.approval,
                      prompted |-> r.prompted]
  /\ UNCHANGED <<graph_vars, gui, _todos, history_vars>>

NextAsk ==
  \E call \in PermCalls, choice \in Choices :
    check_tool_permission_step(call, choice)

InitAsk == probe = NoProbe /\ \E file \in AddFiles : Started(file)

SpecAsk == InitAsk /\ [][NextAsk]_vars

\* call_llm's preparation of the model's input, applied to a conversation
\* of at most MaxHistory messages as the graph builds them: a Human message
\* first, Tool messages after an Assistant message with tool calls, the
\* last message a Human or a Tool message; AGENTS.md is missing, empty,
\* short or longer than the context window.
SYSTEM_TOKENS == 1000
MessageTokens == {1000, 64000, 127000}
CustomInstructions ==
  {None, Some(<<>>), Some(<<Tokens(1000)>>), Some(<<Tokens(129000)>>)}

SomeCall == [id |-> 1, name |-> READ_FILE, args |-> [path |-> <<"u">>]]

Made(type, n) ==
  IF type = "human" THEN HumanMessage(<<Tokens(n)>>)
  ELSE IF type = "ai_calls" THEN AIMessage(<<Tokens(n)>>, <<SomeCall>>)
  ELSE IF type = "ai" THEN AIMessage(<<Tokens(n)>>, <<>>)
  ELSE ToolMessage(<<Tokens(n)>>, SomeCall.id, SomeCall.name)

MayFollow(a, b) ==
  \/ a = "human" /\ b \in {"ai", "ai_calls"}
  \/ a = "ai" /\ b = "human"
  \/ a = "ai_calls" /\ b = "tool"
  \/ a = "tool" /\ b \in {"tool", "ai", "ai_calls"}

Shapes(n) ==
  {t \in UNION {[1..k -> {"human", "ai", "ai_calls", "tool"}] : k \in 1..n} :
     /\ t[1] = "human"
     /\ t[Len(t)] \in {"human", "tool"}
     /\ \A i \in 1..(Len(t) - 1) : MayFollow(t[i], t[i + 1])}

Histories(n) ==
  UNION {{[i \in 1..Len(t) |-> Made(t[i], c[i])] :
            c \in [1..Len(t) -> MessageTokens]} : t \in Shapes(n)}

InitTrim ==
  /\ Started(None)
  /\ \E custom \in CustomInstructions, history \in Histories(MaxHistory) :
       probe = [op |-> "input", custom_instructions |-> custom,
                messages |-> add_messages(<<>>, history)]

call_llm_step ==
  /\ probe.op = "input"
  /\ LET system_messages ==
           SystemMessages(<<Tokens(SYSTEM_TOKENS)>>,
                          probe.custom_instructions)
         trimmed_messages ==
           trim_messages(system_messages \o probe.messages)
     IN  probe' = [op |-> "call_llm",
                   custom_instructions |-> probe.custom_instructions,
                   system_messages |-> system_messages,
                   messages |-> probe.messages,
                   trimmed_messages |-> trimmed_messages,
                   invoked |-> TRUE]
  /\ UNCHANGED <<settings_vars, graph_vars, gui, _todos, history_vars>>

NextTrim == call_llm_step

SpecTrim == InitTrim /\ [][NextTrim]_vars

\* ToolNode applied to one approved call of each tool, on every file,
\* subprocess run and argument the tool tells apart.
FileLines == {<<>>, <<"u">>, <<"u", "v">>}

ToolFiles ==
  {File("missing", parent, <<>>) : parent \in BOOLEAN}
  \cup {File(kind, TRUE, <<>>) : kind \in {"denied", "directory"}}
  \cup {File(kind, TRUE, lines) :
          kind \in {"readonly", "file"}, lines \in FileLines}

ToolRuns ==
  {Run(kind, <<>>, <<>>, 0) : kind \in {"timeout", "oserror"}}
  \cup {Run("completed", stdout, stderr, returncode) :
          stdout \in {<<>>, <<SP>>, <<"u">>},
          stderr \in {<<>>, <<"v">>}, returncode \in {0, 1}}

TodoItems ==
  {TodoItem(description, status) :
     description \in {None, Some("t")},
     status \in {None, Some("pending"), Some("completed"), Some("done")}}

ToolInputs ==
  {[call |-> [id |-> 1, name |-> READ_FILE,
              args |-> [path |-> <<"u">>, start_line |-> start_line,
                        end_line |-> end_line]],
    env |-> file] :
     file \in ToolFiles, start_line \in 0..3, end_line \in -1..3}
  \cup {[call |-> [id |-> 1, name |-> WRITE_FILE,
                   args |-> [path |-> <<"u">>, content |-> <<"v">>]],
         env |-> file] : file \in ToolFiles}
  \cup {[call |-> [id |-> 1, name |-> INSERT_TEXT,
                   args |-> [path |-> <<"u">>, content |-> <<"v">>,
                             line_number |-> line_number]],
         env |-> file] : file \in ToolFiles, line_number \in 0..4}
  \cup {[call |-> [id |-> 1, name |-> RUN_SHELL_COMMAND,
                   args |-> [command |-> <<"u">>]],
         env |-> run] : run \in ToolRuns}
  \cup {[call |-> [id |-> 1, name |-> WRITE_TODOS,
                   args |-> [todos |-> todos]],
         env |-> None] :
          todos \in UNION {[1..k -> TodoItems] : k \in 0..2}}
  \cup {[call |-> [id |-> 1, name |-> READ_TODOS, args |-> <<>>],
         env |-> None]}

InitTool ==
  /\ settings_file = None
  /\ _settings = None
  /\ saved = FALSE
  /\ resume = <<>>
  /\ interrupts = None
  /\ gui = "stream"
  /\ next = CALL_TOOL
  /\ declined = {}
  /\ executed = {}
  /\ asked = <<>>
  /\ _todos \in {<<>>, <<TodoItem(Some("t"), Some("pending"))>>}
  /\ \E input \in ToolInputs :
       /\ messages =
            add_messages(<<>>, <<HumanMessage(<<Text("prompt")>>),
                                 AIMessage(<<>>, <<input.call>>)>>)
       /\ approved = {input.call.id}
       /\ probe = [op |-> "input", env |-> input.env]

\* The call_tool node on the call of the latest Assistant message: the
\* tool runs, its result becomes a Tool message and the edge leads to
\* call_llm; an exception ToolNode lets pass ends the stream in
\* invoke_agent's error panel, with nothing written.
call_tool_step ==
  /\ probe.op = "input"
  /\ gui = "stream"
  /\ next = CALL_TOOL
  /\ LET call == LatestToolCalls(messages)[1]
         result == invoke_tool(call, probe.env, _todos)
     IN  /\ _todos' = result.todos
         /\ executed' = executed \cup {call.id}
         /\ probe' = [op |-> "call_tool", call |-> call, env |-> probe.env,
                      result |-> result]
         /\ \E outcome \in ToolNodeOutcomes(call, result) :
              IF outcome = None
                THEN /\ gui' = "prompt"
                     /\ UNCHANGED <<messages, next>>
                ELSE /\ messages' = add_messages(messages, outcome)
                     /\ next' = CALL_LLM
                     /\ gui' = gui
  /\ saved' = FALSE
  /\ UNCHANGED <<settings_file, _settings, resume, interrupts, approved,
                 declined, asked>>

NextTool == call_tool_step

SpecTool == InitTool /\ [][NextTool]_vars

\* save_settings and load_settings on one base path: the file found there
\* is missing, unreadable, no JSON, no UTF-8, JSON that is no object, or an
\* object with some or all of the keys; the Settings to save hold any two
\* lists of at most MaxRules rules, a model name and a window size.
SaveRules == {READ_FILE, Rule(RUN_SHELL_COMMAND, <<"u">> \o WILDCARD)}

SettingsValues ==
  {Settings(allow, deny, model, context_window_size) :
     allow \in RuleLists(SaveRules, MaxRules),
     deny \in RuleLists(SaveRules, MaxRules),
     model \in {DEFAULT_MODEL, "llama3", ""},
     context_window_size \in {DEFAULT_CONTEXT_WINDOW_SIZE, 32000, 0}}

FilesOnDisk ==
  {None,
   Some(Unloadable("OSError")),
   Some(Unloadable("JSONDecodeError")),
   Some(Unloadable("UnicodeDecodeError")),
   Some(NotAnObject("array")),
   Some(NotAnObject("null")),
   Some(<<>>),
   Some([permissions |-> NotAnObject("array")]),
   Some([permissions |-> NotAnObject("string"), model |-> "llama3"]),
   Some([model |-> "llama3"]),
   Some([permissions |-> [allow |-> <<READ_FILE>>]]),
   Some([permissions |-> [deny |-> <<READ_FILE>>],
         context_window_size |-> 32000])}

InitFile ==
  \E file \in FilesOnDisk, settings \in SettingsValues :
    /\ Started(file)
    /\ probe = [op |-> "input", settings |-> settings]

\* save_settings(settings): the file is overwritten as a whole.
save_settings_step ==
  /\ probe.op = "input"
  /\ settings_file' = save_settings(probe.settings)
  /\ saved' = TRUE
  /\ probe' = [op |-> "save_settings", settings |-> probe.settings]
  /\ UNCHANGED <<_settings, graph_vars, gui, _todos, history_vars>>

\* load_settings(), on the file as found or after the save.
load_settings_step ==
  /\ probe.op \in {"input", "save_settings"}
  /\ probe' = [op |-> "load_settings", settings |-> probe.settings,
               after_save |-> probe.op = "save_settings",
               result |-> load_settings(settings_file)]
  /\ UNCHANGED <<settings_vars, graph_vars, gui, _todos, history_vars>>

NextFile ==
  \/ save_settings_step
  \/ load_settings_step

SpecFile == InitFile /\ [][NextFile]_vars

\* The approval step on a batch of at most MaxBatch calls that has a resume
\* value for each call, the values being whatever a responder may pass to
\* Command(resume=...): an approval, a refusal with one of the two reasons
\* of the GUI, with another reason or without one, and an empty dict.
Approvals ==
  {APPROVED, Refused(DECLINED_BY_USER), Refused(DENIED_BY_SETTINGS),
   Refused("not now"), [approved |-> FALSE], <<>>}

InitRoute ==
  /\ settings_file = None
  /\ _settings = None
  /\ saved = FALSE
  /\ interrupts = None
  /\ gui = "stream"
  /\ next = CHECK_TOOL_APPROVAL
  /\ _todos = <<>>
  /\ executed = {}
  /\ asked = <<>>
  /\ \E batch \in Batches(MaxBatch, 1) :
       /\ batch # <<>>
       /\ messages =
            add_messages(<<>>, <<HumanMessage(<<Text("prompt")>>),
                                 AIMessage(<<>>, batch)>>)
       /\ resume \in [1..Len(batch) -> Approvals]
       /\ approved = {batch[i].id : i \in {j \in 1..Len(batch) :
                                             Get(resume[j], "approved", FALSE)}}
       /\ declined = {batch[i].id : i \in {j \in 1..Len(batch) :
                                             ~Get(resume[j], "approved", FALSE)}}
       /\ probe = [op |-> "input", resumes |-> resume]

NextRoute ==
  \/ check_tool_approval_node
  \/ call_tool

SpecRoute == InitRoute /\ [][NextRoute]_vars

\* insert_text applied to a file with a text of at most MaxFileLen
\* characters, with and without a newline at its end, a content with and
\* without a line end, and a line number in and out of range.
FileTexts == StringsUpTo({"u", NL}, MaxFileLen)
InsertContents == {<<"v">>, <<"v", NL>>}

InitInsert ==
  /\ Started(None)
  /\ \E text \in FileTexts, content \in InsertContents,
        line_number \in 0..(MaxFileLen + 2) :
       probe = [op |-> "input", text |-> text, content |-> content,
                line_number |-> line_number]

insert_text_step ==
  /\ probe.op = "input"
  /\ probe' = [op |-> "insert_text", text |-> probe.text,
               content |-> probe.content,
               line_number |-> probe.line_number,
               result |-> insert_text(File("file", TRUE,
                                           ReadLines(probe.text)),
                                      <<"u">>, probe.content,
                                      probe.line_number),
               written |-> insert_text_file(probe.text, probe.content,
                                            probe.line_number)]
  /\ UNCHANGED <<settings_vars, graph_vars, gui, _todos, history_vars>>

NextInsert == insert_text_step

SpecInsert == InitInsert /\ [][NextInsert]_vars

\* ------------------------------------------------------------- claims

\* Some rule of the list matches the call.
SomeRuleMatches(rules, call) ==
  \E i \in 1..Len(rules) : match_rule(rules[i], call.name, call.args)

\* The reorderings of a sequence.
Reorderings(seq) ==
  {[i \in 1..Len(seq) |-> seq[f[i]]] :
     f \in {g \in [1..Len(seq) -> 1..Len(seq)] :
              \A i, j \in 1..Len(seq) : g[i] = g[j] => i = j}}

\* The permission lists in force: those of the loaded settings, or of the
\* file when nothing was loaded yet.
Permissions == get_settings(_settings, settings_file).permissions

\* C1 -- deny precedence: whenever check_permission was applied to a call
\* that at least one deny rule matches, it returned False, whatever the
\* allow list holds and wherever the matching rules stand in their lists.
DenyPrecedence ==
  (probe.op = "check_permission"
     /\ SomeRuleMatches(Permissions.deny, probe.call))
    => probe.result = PermFalse

\* A call that the second deny rule and the first allow rule both match,
\* the first deny rule not matching, was decided.
DenyPrecedenceWitness ==
  /\ probe.op = "check_permission"
  /\ Len(Permissions.deny) = 2
  /\ ~match_rule(Permissions.deny[1], probe.call.name, probe.call.args)
  /\ match_rule(Permissions.deny[2], probe.call.name, probe.call.args)
  /\ Permissions.allow # <<>>
  /\ match_rule(Permissions.allow[1], probe.call.name, probe.call.args)
  /\ probe.result = PermFalse

\* C4 -- check_permission is a total three-way decision: False iff some
\* deny rule matches, True iff no deny rule and some allow rule matches,
\* None iff no rule matches (so always None on an empty rule set), and the
\* same result for every reordering of the rules inside each list.
ThreeWayDecision ==
  probe.op = "check_permission" =>
    LET d == SomeRuleMatches(Permissions.deny, probe.call)
        a == SomeRuleMatches(Permissions.allow, probe.call)
        s == get_settings(_settings, settings_file)
    IN  /\ probe.result \in {PermTrue, PermFalse, PermNone}
        /\ (probe.result = PermFalse) <=> d
        /\ (probe.result = PermTrue) <=> (~d /\ a)
        /\ (probe.result = PermNone) <=> (~d /\ ~a)
        /\ \A allow \in Reorderings(Permissions.allow) :
             check_permission([s EXCEPT !.permissions.allow = allow],
                              probe.call.name, probe.call.args)
               = probe.result
        /\ \A deny \in Reorderings(Permissions.deny) :
             check_permission([s EXCEPT !.permissions.deny = deny],
                              probe.call.name, probe.call.args)
               = probe.result

\* A call that only the last of two allow rules matches was allowed, with
\* a deny list that is not empty.
ThreeWayDecisionWitness ==
  /\ probe.op = "check_permission"
  /\ Permissions.deny # <<>>
  /\ Len(Permissions.allow) = 2
  /\ ~match_rule(Permissions.allow[1], probe.call.name, probe.call.args)
  /\ match_rule(Permissions.allow[2], probe.call.name, probe.call.args)
  /\ probe.result = PermTrue

\* The prefix p of a wildcard pattern p + ":*".
PrefixOf(pattern) == SubSeq(pattern, 1, Len(pattern) - 2)

\* C5 as stated -- for all commands c and prefixes p,
\* _match_command_pattern(c, p + ":*") is true iff c == p or c starts with
\* p followed by one space.
WildcardMatchAsStated ==
  (probe.op = "_match_command_pattern" /\ EndsWith(probe.pattern, WILDCARD))
    => LET c == probe.command
           p == PrefixOf(probe.pattern)
       IN  probe.result <=> (c = p \/ StartsWith(c, p \o <<SP>>))

\* C5 as amended -- for all commands c and prefixes p,
\* _match_command_pattern(c, p + ":*") is true iff c' == p' or c' starts
\* with p' followed by one space, where c' is c without its leading and
\* trailing whitespace and p' is p without its leading whitespace.
WildcardMatch ==
  (probe.op = "_match_command_pattern" /\ EndsWith(probe.pattern, WILDCARD))
    => LET c == Strip(probe.command)
           p == LStrip(PrefixOf(probe.pattern))
       IN  probe.result <=> (c = p \/ StartsWith(c, p \o <<SP>>))

\* A command with whitespace around it matched a wildcard pattern whose
\* prefix is a word after whitespace.
WildcardMatchWitness ==
  /\ probe.op = "_match_command_pattern"
  /\ EndsWith(probe.pattern, WILDCARD)
  /\ probe.command # Strip(probe.command)
  /\ PrefixOf(probe.pattern) # LStrip(PrefixOf(probe.pattern))
  /\ LStrip(PrefixOf(probe.pattern)) # <<>>
  /\ probe.result = TRUE

\* C6 -- a rule with a pattern that names a tool other than
\* run_shell_command matches no invocation; one that names
\* run_shell_command matches only invocations of run_shell_command whose
\* command argument (the empty string when absent) matches the pattern.
PatternRuleShellOnly ==
  probe.op = "match_rule" =>
    LET parsed == _parse_rule(probe.rule)
    IN  parsed[2] # None =>
          /\ parsed[1] # RUN_SHELL_COMMAND => probe.result = FALSE
          /\ (parsed[1] = RUN_SHELL_COMMAND /\ probe.result = TRUE) =>
               /\ probe.call.name = RUN_SHELL_COMMAND
               /\ _match_command_pattern(
                    Get(probe.call.args, "command", <<>>), parsed[2][1])

\* A rule read_file(<pattern>) was matched against a read_file call whose
\* command argument the pattern matches, and did not match.
PatternRuleShellOnlyWitness ==
  /\ probe.op = "match_rule"
  /\ _parse_rule(probe.rule)[1] = READ_FILE
  /\ _parse_rule(probe.rule)[2] # None
  /\ probe.call.name = READ_FILE
  /\ "command" \in DOMAIN probe.call.args
  /\ _match_command_pattern(probe.call.args.command,
                            _parse_rule(probe.rule)[2][1])
  /\ probe.result = FALSE

\* C7 -- a rule with no pattern matches a call iff the call's tool name is
\* exactly the name the rule holds, whatever the arguments.
SimpleRuleMatchesTool ==
  probe.op = "match_rule" =>
    LET parsed == _parse_rule(probe.rule)
    IN  parsed[2] = None =>
          (probe.result <=> probe.call.name = parsed[1])

\* The rule read_file was matched against a call of Read_file and did not
\* match.
SimpleRuleMatchesToolWitness ==
  /\ probe.op = "match_rule"
  /\ probe.rule = READ_FILE
  /\ probe.call.name = READ_FILE_CAP
  /\ probe.result = FALSE

\* C8 -- add_allow_rule is idempotent: a call that repeats the call before
\* it leaves the allow list as that call left it and does not save.
AddAllowRuleIdempotent ==
  (probe.op = "add_allow_rule" /\ probe.again)
    => /\ Permissions.allow = probe.allow_before
       /\ saved = FALSE

\* add_allow_rule was called twice in a row for a call whose rule the
\* first of the two calls appended.
AddAllowRuleIdempotentWitness ==
  /\ probe.op = "add_allow_rule"
  /\ probe.again
  /\ Permissions.allow # <<>>
  /\ Permissions.allow[Len(Permissions.allow)] = probe.result
  /\ settings_file = save_settings(_settings[1])

\* C9 -- the rule add_allow_rule makes covers the approved call: after
\* add_allow_rule for a call that no deny rule matches, check_permission
\* for that call returns True.
AllowRuleCoversCall ==
  (probe.op = "add_allow_rule"
     /\ ~SomeRuleMatches(Permissions.deny, probe.call))
    => check_permission(get_settings(_settings, settings_file),
                        probe.call.name, probe.call.args) = PermTrue

\* C2 -- a tool call is executed only after a decision approved = True was
\* received for it, and never after a decision approved = False.
ExecutedOnlyIfApproved ==
  /\ executed \subseteq approved
  /\ executed \cap declined = {}

\* Calls were executed in a conversation in which a call was declined.
ExecutedOnlyIfApprovedWitness ==
  /\ executed # {}
  /\ declined # {}

\* The ids of the tool calls of a message.
CallIds(m) == {m.tool_calls[k].id : k \in 1..Len(m.tool_calls)}

\* C3 -- fail-closed batches: no call of an Assistant message is executed
\* when a call of that message was declined, whatever its position, and
\* after the decline messages of a batch the next step is the model's.
FailClosedBatch ==
  /\ \A i \in 1..Len(messages) :
       CallIds(messages[i]) \cap declined # {}
         => CallIds(messages[i]) \cap executed = {}
  /\ (messages # <<>> /\ next = CALL_TOOL)
       => CallIds(messages[Len(messages)]) \cap declined = {}
  /\ (messages # <<>>
        /\ messages[Len(messages)].type = "tool"
        /\ messages[Len(messages)].tool_call_id[1] \in declined)
       => next = CALL_LLM

\* A batch of two calls, the first approved and the second declined, was
\* resolved: its decline message is the last message.
FailClosedBatchWitness ==
  /\ Len(messages) >= 2
  /\ Len(messages[Len(messages) - 1].tool_calls) = 2
  /\ messages[Len(messages) - 1].tool_calls[1].id \in approved
  /\ messages[Len(messages) - 1].tool_calls[2].id \in declined
  /\ messages[Len(messages)].type = "tool"
  /\ next = CALL_LLM

\* s is a prefix of t.
IsPrefix(s, t) == Len(s) <= Len(t) /\ SubSeq(t, 1, Len(s)) = s

\* C10 -- in every step the deny list, the model name and the context
\* window size in force stay as they are, and the allow list stays as it
\* is or gets one rule more at its end.
OnlyAllowGrows ==
  [][LET old == get_settings(_settings, settings_file)
         new == get_settings(_settings', settings_file')
     IN  /\ new.permissions.deny = old.permissions.deny
         /\ new.model = old.model
         /\ new.context_window_size = old.context_window_size
         /\ IsPrefix(old.permissions.allow, new.permissions.allow)
         /\ Len(new.permissions.allow) <= Len(old.permissions.allow) + 1
    ]_vars

\* An 'always' answer has just added a second allow rule to settings that
\* hold a deny rule and a model name of their own.
OnlyAllowGrowsWitness ==
  /\ saved = TRUE
  /\ _settings # None
  /\ Len(_settings[1].permissions.allow) = 2
  /\ _settings[1].permissions.deny # <<>>
  /\ _settings[1].model = "llama3"

\* The messages of a list that are not system messages.
IsNotSystem(m) == m.type # "system"
NonSystem(msgs) == SelectSeq(msgs, IsNotSystem)

\* s is a suffix of t.
IsSuffix(s, t) ==
  Len(s) <= Len(t) /\ SubSeq(t, Len(t) - Len(s) + 1, Len(t)) = s

\* C11 -- trimming never drops a system message: the list handed to the
\* model begins with the system messages call_llm built, the static
\* instructions and, when there are custom instructions, the second system
\* message, whatever the history and the token counts.
SystemMessagesRetained ==
  probe.op = "call_llm" =>
    /\ Len(probe.trimmed_messages) >= Len(probe.system_messages)
    /\ \A i \in 1..Len(probe.system_messages) :
         probe.trimmed_messages[i] = probe.system_messages[i]

\* C12 -- trimming never splits an exchange: the non-system messages handed
\* to the model are a suffix of the conversation, and the oldest of them is
\* a Human message unless there is none.
TrimStartsOnHuman ==
  probe.op = "call_llm" =>
    LET kept == NonSystem(probe.trimmed_messages)
    IN  /\ IsSuffix(kept, probe.messages)
        /\ kept = <<>> \/ kept[1].type = "human"

\* A conversation was trimmed to a suffix that starts on a Human message,
\* although the budget had room for the Assistant message before it.
TrimStartsOnHumanWitness ==
  /\ probe.op = "call_llm"
  /\ LET kept == NonSystem(probe.trimmed_messages)
         n == Len(probe.messages)
         k == Len(kept)
     IN  /\ 0 < k
         /\ k < n
         /\ probe.messages[n - k].type = "ai"
         /\ _count_tokens(<<probe.system_messages[1]>>
                            \o SubSeq(probe.messages, n - k, n))
              <= MAX_CONTEXT_TOKENS

\* C13 -- budget safety: the model is never invoked with a list counted
\* above the token budget, and when the system messages alone are counted
\* above the budget call_llm fails and does not invoke the model.
BudgetSafety ==
  probe.op = "call_llm" =>
    /\ probe.invoked =>
         _count_tokens(probe.trimmed_messages) <= MAX_CONTEXT_TOKENS
    /\ _count_tokens(probe.system_messages) > MAX_CONTEXT_TOKENS
         => ~probe.invoked

\* The last message is an Assistant message without tool calls.
LastIsPlainAssistant ==
  /\ messages # <<>>
  /\ messages[Len(messages)].type = "ai"
  /\ messages[Len(messages)].tool_calls = <<>>

\* C14 -- when the Assistant message the model returned carries no tool
\* calls the turn ends at once: nothing is pending, and the one step the
\* turn takes is the return to the prompt, with no approval step, no
\* interrupt, no tool execution and no further model call.
NoToolCallsEndsTurn ==
  [][(gui = "stream" /\ LastIsPlainAssistant)
       => /\ next = END
          /\ interrupts = None
          /\ resume = <<>>
          /\ gui' = "prompt"
          /\ UNCHANGED <<messages, next, interrupts, resume, executed,
                         asked>>
    ]_vars

\* A turn that ran tools has ended on an Assistant message without tool
\* calls.
NoToolCallsEndsTurnWitness ==
  /\ gui = "prompt"
  /\ LastIsPlainAssistant
  /\ next = END
  /\ executed # {}

\* The ids of the calls put to check_tool_permission so far.
AskedIds == {asked[i].tool_call_id : i \in 1..Len(asked)}

\* The batch of message i is resolved: the approval step is over for it.
Resolved(i) ==
  /\ messages[i].tool_calls # <<>>
  /\ i < Len(messages) \/ next = CALL_TOOL

\* C15 as stated -- the turn is suspended on an interrupt only for a tool
\* call on which check_permission is undecided.
SuspendsOnlyIfUndecided ==
  interrupts # None =>
    check_permission(get_settings(_settings, settings_file),
                     interrupts[1].tool_name, interrupts[1].tool_args)
      = PermNone

\* C15 as amended -- the turn is suspended on an interrupt for every tool
\* call, whatever the rules say: every call executed or resolved was put
\* to check_tool_permission; only the prompt is kept for the undecided
\* calls, a call that a rule decides being resumed without prompting.
SuspendsForEveryCall ==
  /\ executed \subseteq AskedIds
  /\ \A i \in 1..Len(messages) :
       Resolved(i) => CallIds(messages[i]) \subseteq AskedIds
  /\ \A k \in 1..Len(asked) :
       asked[k].permission # PermNone => ~asked[k].prompted

\* A call that an allow rule decides was surfaced by an interrupt, resumed
\* without a prompt and executed.
SuspendsForEveryCallWitness ==
  \E k \in 1..Len(asked) :
    /\ asked[k].permission = PermTrue
    /\ ~asked[k].prompted
    /\ asked[k].tool_call_id \in executed

\* C17 -- the interrupt payload is that of the pending call: type
\* 'tool_approval' and the name, arguments and id of the first call of the
\* batch without a resume value, not those of another call of the batch;
\* and with an empty rule set check_permission is undecided on it.
InterruptPayloadMatches ==
  interrupts # None =>
    LET payload == interrupts[1]
        batch == messages[Len(messages)].tool_calls
        pending == Len(resume) + 1
    IN  /\ pending <= Len(batch)
        /\ payload.type = "tool_approval"
        /\ payload.tool_name = batch[pending].name
        /\ payload.tool_args = batch[pending].args
        /\ payload.tool_call_id = batch[pending].id
        /\ \A j \in 1..Len(batch) :
             j # pending => payload.tool_call_id # batch[j].id
        /\ (Permissions.allow = <<>> /\ Permissions.deny = <<>>)
             => check_permission(get_settings(_settings, settings_file),
                                 payload.tool_name, payload.tool_args)
                  = PermNone

\* With an empty rule set, the second call of a batch of two calls of
\* different tools is pending.
InterruptPayloadMatchesWitness ==
  /\ interrupts # None
  /\ Permissions.allow = <<>>
  /\ Permissions.deny = <<>>
  /\ Len(resume) = 1
  /\ Len(messages[Len(messages)].tool_calls) = 2
  /\ messages[Len(messages)].tool_calls[1].name
       # messages[Len(messages)].tool_calls[2].name
  /\ interrupts[1].tool_call_id = messages[Len(messages)].tool_calls[2].id

\* C18 -- resuming does not re-run resolved decisions: no call is put to
\* check_tool_permission twice and every call of a resolved batch was put
\* to it; while a batch is in the approval step the resume values are the
\* decisions its first calls received, in order, and the pending interrupt
\* is for the first call without a decision, which was not asked before.
ResumeKeepsDecisions ==
  /\ \A i, j \in 1..Len(asked) :
       asked[i].tool_call_id = asked[j].tool_call_id => i = j
  /\ \A i \in 1..Len(messages) :
       Resolved(i) => CallIds(messages[i]) \subseteq AskedIds
  /\ (gui = "stream" /\ next = CHECK_TOOL_APPROVAL) =>
       LET batch == messages[Len(messages)].tool_calls
       IN  /\ Len(resume) <= Len(batch)
           /\ \A j \in 1..Len(resume) :
                \E k \in 1..Len(asked) :
                  /\ asked[k].tool_call_id = batch[j].id
                  /\ asked[k].approval = resume[j]
           /\ interrupts # None =>
                /\ Len(resume) < Len(batch)
                /\ interrupts[1].tool_call_id = batch[Len(resume) + 1].id
                /\ interrupts[1].tool_call_id \notin AskedIds

\* The first call of a batch was declined and the second call is pending.
ResumeKeepsDecisionsWitness ==
  /\ interrupts # None
  /\ Len(resume) = 1
  /\ ~resume[1].approved
  /\ asked # <<>>
  /\ asked[Len(asked)].tool_call_id
       = messages[Len(messages)].tool_calls[1].id

\* A decline message of check_tool_approval.
IsDecline(m) ==
  /\ m.type = "tool"
  /\ \/ InContent(DECLINED_BY_USER, m.content)
     \/ InContent(DENIED_BY_SETTINGS, m.content)

\* The batch a Tool message at position i answers: the tool calls of the
\* latest Assistant message before it.
BatchOf(i) == LatestToolCalls(SubSeq(messages, 1, i))

PromptIffUndecided ==
  probe.op = "check_tool_permission" =>
    /\ probe.prompted <=> probe.permission = PermNone
    /\ probe.permission = PermTrue =>
         /\ probe.result = [approved |-> TRUE]
         /\ ~probe.prompted
    /\ probe.permission = PermFalse =>
         /\ probe.result
              = [approved |-> FALSE, reason |-> "denied by settings"]
         /\ ~probe.prompted
    /\ ~probe.prompted =>
         (saved = FALSE /\ settings_file = probe.file_before)

\* A call that a deny rule matches was refused without a prompt, with a
\* user who would have answered 'always'.
PromptIffUndecidedWitness ==
  /\ probe.op = "check_tool_permission"
  /\ probe.permission = PermFalse
  /\ probe.choice = "always"
  /\ ~probe.prompted
  /\ ~probe.result.approved
  /\ saved = FALSE

\* C19 -- a suspended approval survives a process restart: when the
\* program is started again after it stopped with a turn suspended in the
\* approval step, the conversation, the resume values and the pending
\* interrupt of the thread are those the checkpoint held.
SuspendedApprovalSurvivesRestart ==
  [][(gui = "exit" /\ gui' = "prompt" /\ interrupts # None)
       => /\ messages' = messages
          /\ next' = next
          /\ resume' = resume
          /\ interrupts' = interrupts
    ]_vars

\* C21 -- reset clears everything: a step that stays at the prompt, which
\* is clear_conversation, leaves the thread without messages and the todo
\* list empty.
ResetClearsEverything ==
  [][(gui = "prompt" /\ gui' = "prompt")
       => (messages' = <<>> /\ _todos' = <<>>)
    ]_vars

\* The conversation before its last Human message.
RECURSIVE BeforeLastHuman(_)
BeforeLastHuman(msgs) ==
  IF msgs = <<>> THEN <<>>
  ELSE IF msgs[Len(msgs)].type = "human"
    THEN SubSeq(msgs, 1, Len(msgs) - 1)
  ELSE BeforeLastHuman(SubSeq(msgs, 1, Len(msgs) - 1))

\* C22 -- a model failure is safe to retry: when invoke_agent returns to
\* the prompt with the model step still to run, which is the model call
\* having failed, the conversation is what it was before the prompt of the
\* turn, so the same prompt submitted again gives the history of a turn
\* without the failure.
ModelFailureSafeToRetry ==
  [][(gui = "stream" /\ next = CALL_LLM /\ gui' = "prompt")
       => messages' = BeforeLastHuman(messages)
    ]_vars

CancellationPrintsMessage ==
  (probe.op = "invoke_agent" /\ probe.raised = Some("CancelledError"))
    => probe.console = Some("Agent interrupted by user")

\* The environment of a tool call holds one of the failures the tools
\* report: a missing file or directory, a permission error, a line number
\* out of range, a status outside TodoStatus, a command timeout.
ToolFailed(call, env) ==
  \/ /\ call.name \in {READ_FILE, INSERT_TEXT}
     /\ env.kind \in {"missing", "denied"}
  \/ /\ call.name = WRITE_FILE
     /\ ~env.parent \/ env.kind \in {"denied", "readonly"}
  \/ call.name = INSERT_TEXT /\ env.kind = "readonly"
  \/ /\ call.name = READ_FILE
     /\ env.kind \in {"readonly", "file"}
     /\ \/ call.args.start_line < 1
        \/ call.args.start_line > Len(env.lines)
  \/ /\ call.name = INSERT_TEXT
     /\ env.kind \in {"readonly", "file"}
     /\ \/ call.args.line_number < 1
        \/ call.args.line_number > Len(env.lines) + 1
  \/ /\ call.name = WRITE_TODOS
     /\ ValidTodos(call.args.todos)
     /\ \E i \in 1..Len(call.args.todos) :
          call.args.todos[i].status[1] \notin valid_statuses
  \/ call.name = RUN_SHELL_COMMAND /\ env.kind = "timeout"

\* C23 -- a tool failure never aborts the turn: after the tool step the
\* stream goes on to the model step with one Tool message appended for the
\* call, after a failure exactly as after a success; a failure the tools
\* report is not raised and its text is the content of that message.
ToolFailureNeverAborts ==
  probe.op = "call_tool"
    => /\ gui = "stream"
       /\ next = CALL_LLM
       /\ Len(messages) = 3
       /\ messages[3].type = "tool"
       /\ messages[3].tool_call_id = Some(probe.call.id)
       /\ ToolFailed(probe.call, probe.env)
            => /\ probe.result.raised = None
               /\ messages[3].content = probe.result.content
               /\ messages[3].content[1].text \in
                    {"Error: File not found: ", "Error: Permission denied: ",
                     "Error: Directory does not exist: ",
                     "Error: start_line must be >= 1.",
                     "Error: start_line ", "Error: line_number must be >= 1.",
                     "Error: line_number ", "Error: Invalid status '",
                     "Error: Command timed out after 60 seconds."}

\* The shell command of the call timed out, and the text of the timeout is
\* the Tool message the model step is about to read.
ToolFailureNeverAbortsWitness ==
  /\ probe.op = "call_tool"
  /\ probe.call.name = RUN_SHELL_COMMAND
  /\ probe.env.kind = "timeout"
  /\ next = CALL_LLM
  /\ messages[Len(messages)].content =
       <<Text("Error: Command timed out after 60 seconds.")>>

\* C24 -- settings round-trip: load_settings after save_settings on the
\* same base path returns the saved Settings: the two lists in their order,
\* the model name and the context window size.
SettingsRoundTrip ==
  (probe.op = "load_settings" /\ probe.after_save)
    => /\ probe.result = probe.settings
       /\ probe.result.permissions.allow = probe.settings.permissions.allow
       /\ probe.result.permissions.deny = probe.settings.permissions.deny
       /\ probe.result.model = probe.settings.model
       /\ probe.result.context_window_size
            = probe.settings.context_window_size

\* Settings with two different allow rules, an empty model name and a
\* window size of 0 were saved over a file that was no JSON, and loaded.
SettingsRoundTripWitness ==
  /\ probe.op = "load_settings"
  /\ probe.after_save
  /\ Len(probe.settings.permissions.allow) = 2
  /\ probe.settings.permissions.allow[1] # probe.settings.permissions.allow[2]
  /\ probe.settings.model = ""
  /\ probe.settings.context_window_size = 0
  /\ probe.result = probe.settings

\* C25 -- load_settings tolerates any settings file: it returns without
\* raising, and with the default values when the file is missing,
\* unreadable, no valid JSON, or JSON whose top level or 'permissions' is
\* no object.
LoadToleratesAnyFile ==
  (probe.op = "load_settings" /\ ~probe.after_save)
    => /\ "raised" \notin DOMAIN probe.result
       /\ (\/ settings_file = None
           \/ "error" \in DOMAIN settings_file[1]
           \/ ~IsObject(settings_file[1]))
            => probe.result = Settings(<<>>, <<>>, DEFAULT_MODEL,
                                      DEFAULT_CONTEXT_WINDOW_SIZE)
       /\ (/\ settings_file # None
           /\ "error" \notin DOMAIN settings_file[1]
           /\ IsObject(settings_file[1])
           /\ ~IsObject(Get(settings_file[1], "permissions", <<>>)))
            => /\ probe.result.permissions.allow = <<>>
               /\ probe.result.permissions.deny = <<>>

\* The position of the nearest Assistant message before position i, or 0.
RECURSIVE NearestAssistant(_, _)
NearestAssistant(msgs, i) ==
  IF i <= 1 THEN 0
  ELSE IF msgs[i - 1].type = "ai" THEN i - 1
  ELSE NearestAssistant(msgs, i - 1)

\* C26 -- Tool messages are never dangling and are causally ordered: every
\* Tool message has an Assistant message before it, and its key is the id
\* of a tool call of the nearest one, so it lies after the message that
\* emitted its call and before the next Assistant message.
ToolMessagesNeverDangle ==
  \A i \in 1..Len(messages) :
    messages[i].type = "tool"
      => LET a == NearestAssistant(messages, i)
         IN  /\ a > 0
             /\ \E id \in CallIds(messages[a]) :
                  messages[i].tool_call_id = Some(id)

\* Two Tool messages with an Assistant message between them, each keyed to
\* a call of the Assistant message before it, one a decline and one a
\* result.
ToolMessagesNeverDangleWitness ==
  \E i, j \in 1..Len(messages) :
    /\ i < j
    /\ messages[i].type = "tool"
    /\ messages[j].type = "tool"
    /\ IsDecline(messages[i]) # IsDecline(messages[j])
    /\ NearestAssistant(messages, i) < NearestAssistant(messages, j)
    /\ \E id \in CallIds(messages[NearestAssistant(messages, j)]) :
         messages[j].tool_call_id = Some(id)

\* The ids of the calls of batch that were put to the responder, in the
\* order they were put.
RECURSIVE AskedOf(_, _)
AskedOf(requests, batch) ==
  IF requests = <<>> THEN <<>>
  ELSE (IF \E c \in 1..Len(batch) : batch[c].id = Head(requests).tool_call_id
          THEN <<Head(requests).tool_call_id>> ELSE <<>>)
       \o AskedOf(Tail(requests), batch)

\* C29 -- approval requests follow emission order: the requests answered
\* for the calls of an Assistant message are those of its first calls, in
\* the order of the calls; while a call of the message has no answer, the
\* graph is at the approval step, a pending request is the one of the first
\* call without an answer, no call of the message has run and no message
\* follows it (no decline, no Tool result, no model call).
ApprovalInEmissionOrder ==
  \A a \in 1..Len(messages) :
    LET batch == messages[a].tool_calls
        answered == AskedOf(asked, batch)
    IN  /\ Len(answered) <= Len(batch)
        /\ \A k \in 1..Len(answered) : answered[k] = batch[k].id
        /\ Len(answered) < Len(batch)
             => /\ a = Len(messages)
                /\ CallIds(messages[a]) \cap executed = {}
                /\ gui = "stream"
                     => /\ next = CHECK_TOOL_APPROVAL
                        /\ Len(resume) = Len(answered)
                        /\ interrupts # None
                             => interrupts[1].tool_call_id
                                  = batch[Len(answered) + 1].id

\* Both calls of a batch were answered, the first approved and the second
\* declined, in the order of the calls, and the decline is appended.
ApprovalInEmissionOrderWitness ==
  /\ Len(messages) >= 3
  /\ Len(messages[2].tool_calls) = 2
  /\ Len(asked) = 2
  /\ asked[1].tool_call_id = messages[2].tool_calls[1].id
  /\ asked[2].tool_call_id = messages[2].tool_calls[2].id
  /\ messages[2].tool_calls[1].id \in approved
  /\ messages[2].tool_calls[2].id \in declined
  /\ IsDecline(messages[3])

\* C30 -- routing after the approval step depends only on whether a decline
\* was produced: once the step is over for a batch with a refused call,
\* every refused call has its decline message "Tool '<name>' <reason>."
\* under its id, whatever the reason ("declined by user" when absent), the
\* next step is the model's and no tool of the batch has run.
DeclineRoutesToModel ==
  (/\ probe.op = "input"
   /\ next # CHECK_TOOL_APPROVAL
   /\ \E i \in 1..Len(probe.resumes) :
        ~Get(probe.resumes[i], "approved", FALSE))
    => /\ \A i \in 1..Len(probe.resumes) :
            ~Get(probe.resumes[i], "approved", FALSE)
              => LET tool_call == messages[2].tool_calls[i]
                     reason == Get(probe.resumes[i], "reason",
                                   DECLINED_BY_USER)
                 IN  \E m \in 3..Len(messages) :
                       /\ messages[m].type = "tool"
                       /\ messages[m].tool_call_id = Some(tool_call.id)
                       /\ messages[m].content =
                            <<Text("Tool '"), Value(tool_call.name),
                              Text("' "), Text(reason), Text(".")>>
       /\ next = CALL_LLM
       /\ executed = {}

\* C31 -- the caller keeps turns serialized and resets only when idle: a
\* step run_interaction_loop takes from the prompt other than leaving the
\* program, which is the submission of a Human message or
\* clear_conversation, is taken only when the thread is idle: its last
\* turn reached the end, or it never ran one.
CallerSerializesTurns ==
  [][(gui = "prompt" /\ gui' # "exit")
       => (next = END /\ interrupts = None)
    ]_vars

\* C32 -- a fully approved batch is fully executed before the model runs
\* again: for an Assistant message whose calls are all approved, either it
\* is the last message, the graph is at the approval or the tool step and
\* none of its calls has run, or it is followed by exactly one Tool message
\* per call, in the order of the calls and under their ids, all of them
\* results of calls that ran; the model step is never next in between.
ApprovedBatchFullyExecuted ==
  \A a \in 1..Len(messages) :
    LET batch == messages[a].tool_calls
        n == Len(batch)
    IN  (batch # <<>> /\ CallIds(messages[a]) \subseteq approved)
          => IF a = Len(messages)
               THEN /\ next \in {CHECK_TOOL_APPROVAL, CALL_TOOL}
                    /\ CallIds(messages[a]) \cap executed = {}
               ELSE /\ Len(messages) >= a + n
                    /\ \A k \in 1..n :
                         /\ messages[a + k].type = "tool"
                         /\ messages[a + k].tool_call_id = Some(batch[k].id)
                         /\ ~IsDecline(messages[a + k])
                    /\ Len(messages) > a + n
                         => messages[a + n + 1].type # "tool"
                    /\ CallIds(messages[a]) \subseteq executed

\* Both calls of an approved batch of two have run, their two results
\* follow the Assistant message and the model step is next.
ApprovedBatchFullyExecutedWitness ==
  /\ Len(messages) = 4
  /\ Len(messages[2].tool_calls) = 2
  /\ CallIds(messages[2]) \subseteq approved
  /\ CallIds(messages[2]) \subseteq executed
  /\ messages[3].tool_call_id = Some(messages[2].tool_calls[1].id)
  /\ messages[4].tool_call_id = Some(messages[2].tool_calls[2].id)
  /\ next = CALL_LLM

\* C33 -- turn termination: the graph of a conversation is at its end
\* exactly when the latest message is an Assistant message without tool
\* calls; and if no approval request stays pending for ever (the responder
\* answers each one), a turn that is streaming comes to that end, whatever
\* was declined and however many rounds it took.
TurnTerminates ==
  /\ [](messages # <<>> => (next = END <=> LastIsPlainAssistant))
  /\ []<>(interrupts = None)
       => ((gui = "stream") ~> (next = END /\ LastIsPlainAssistant))

\* A turn came to its end after a round in which a call was declined and
\* a round in which a call ran.
TurnTerminatesWitness ==
  /\ next = END
  /\ LastIsPlainAssistant
  /\ declined # {}
  /\ executed # {}

\* C34 as stated -- for a pattern that does not end in ':*',
\* _match_command_pattern(command, pattern) is true iff the command and the
\* pattern are equal after removing leading and trailing whitespace from
\* both.
ExactMatchAsStated ==
  (probe.op = "_match_command_pattern" /\ ~EndsWith(probe.pattern, WILDCARD))
    => (probe.result <=> Strip(probe.command) = Strip(probe.pattern))

\* C34 as amended -- for a pattern that does not end in ':*' once its
\* leading and trailing whitespace is removed,
\* _match_command_pattern(command, pattern) is true iff the command and the
\* pattern are equal after removing leading and trailing whitespace from
\* both; a command that merely starts with the pattern does not match.
ExactMatch ==
  (/\ probe.op = "_match_command_pattern"
   /\ ~EndsWith(Strip(probe.pattern), WILDCARD))
    => (probe.result <=> Strip(probe.command) = Strip(probe.pattern))

\* A command that begins with an exact pattern and goes on after a space
\* was not matched by it.
ExactMatchWitness ==
  /\ probe.op = "_match_command_pattern"
  /\ ~EndsWith(Strip(probe.pattern), WILDCARD)
  /\ Strip(probe.pattern) # <<>>
  /\ StartsWith(Strip(probe.command), Strip(probe.pattern) \o <<SP>>)
  /\ probe.result = FALSE

\* The lines of a text without their line ends.
TextLines(text) ==
  [i \in 1..Len(ReadLines(text)) |-> RStrip(ReadLines(text)[i])]

\* C35 -- insert_text places the content as its own line: for a file of k
\* lines and 1 <= n <= k+1, line n of the file written is the content and
\* the other lines are the k lines of the file as they were and in their
\* order; for n < 1 or n > k+1 an error text is returned and the file is
\* as it was.
InsertTextOwnLine ==
  probe.op = "insert_text"
    => LET before == TextLines(probe.text)
           after == TextLines(probe.written)
           k == Len(before)
           n == probe.line_number
       IN  IF 1 <= n /\ n <= k + 1
             THEN /\ Len(after) = k + 1
                  /\ after[n] = RStrip(probe.content)
                  /\ SubSeq(after, 1, n - 1) \o SubSeq(after, n + 1, k + 1)
                       = before
             ELSE /\ probe.result[1].text \in
                       {"Error: line_number must be >= 1.",
                        "Error: line_number "}
                  /\ probe.written = probe.text

\* The positions of the Tool messages that answer the call with this id.
AnswersTo(id) ==
  {i \in 1..Len(messages) :
     messages[i].type = "tool" /\ messages[i].tool_call_id = Some(id)}

\* C36 -- every tool call is resolved before the model runs again: when
\* the model step is next in a streaming turn, every tool call of every
\* Assistant message of the conversation has exactly one Tool message with
\* its id, a result or a decline.
EveryCallResolved ==
  (gui = "stream" /\ next = CALL_LLM)
    => \A a \in 1..Len(messages) :
         \A id \in CallIds(messages[a]) : Cardinality(AnswersTo(id)) = 1

\* The tool call of the conversation with this id.
CallWithId(id) ==
  CHOOSE c \in UNION {{messages[a].tool_calls[k] :
                         k \in 1..Len(messages[a].tool_calls)} :
                      a \in 1..Len(messages)} : c.id = id

\* The permission set of the session: the one loaded, with the allow rules
\* added since (the deny list is never written, C10).
Policy == get_settings(_settings, settings_file).permissions

\* C37 -- no sequence of human approvals overrides a deny rule: whatever
\* was answered before, every request for a call that a deny rule of the
\* permission set matches was answered 'denied by settings' without a
\* prompt, and the call has not run.
DenyNeverOverridden ==
  \A k \in 1..Len(asked) :
    SomeRuleMatches(Policy.deny, CallWithId(asked[k].tool_call_id))
      => /\ asked[k].approval = Refused(DENIED_BY_SETTINGS)
         /\ ~asked[k].prompted
         /\ asked[k].tool_call_id \notin executed

\* The human answered 'always' to a call, the rule added for it matches a
\* later call that a deny rule matches too, and that call was denied by
\* the settings without a prompt.
DenyNeverOverriddenWitness ==
  \E k, l \in 1..Len(asked) :
    LET first == CallWithId(asked[k].tool_call_id)
        later == CallWithId(asked[l].tool_call_id)
        rule == AllowRuleFor(first.name, first.args)
    IN  /\ k < l
        /\ asked[k].prompted
        /\ asked[k].approval = APPROVED
        /\ \E i \in 1..Len(Policy.allow) : Policy.allow[i] = rule
        /\ match_rule(rule, later.name, later.args)
        /\ SomeRuleMatches(Policy.deny, later)
        /\ asked[l].approval = Refused(DENIED_BY_SETTINGS)
        /\ ~asked[l].prompted

\* C38 -- an 'always' answer takes effect immediately, also inside the same
\* batch: when the human was prompted for a call and the answer added the
\* rule made for it, every later request for a call that the rule matches
\* and no deny rule matches was approved without a prompt.
AlwaysTakesEffectAtOnce ==
  \A k, l \in 1..Len(asked) :
    LET first == CallWithId(asked[k].tool_call_id)
        later == CallWithId(asked[l].tool_call_id)
        rule == AllowRuleFor(first.name, first.args)
    IN  (/\ k < l
         /\ asked[k].prompted
         /\ asked[k].saved
         /\ match_rule(rule, later.name, later.args)
         /\ ~SomeRuleMatches(Policy.deny, later))
          => /\ asked[l].approval = APPROVED
             /\ ~asked[l].prompted

\* The human answered 'always' to the first call of a batch of two, and the
\* second call, a different command with the same first word, was approved
\* by the new rule without a prompt.
AlwaysTakesEffectAtOnceWitness ==
  /\ Len(asked) >= 2
  /\ Len(messages) >= 2
  /\ Len(messages[2].tool_calls) = 2
  /\ asked[1].tool_call_id = messages[2].tool_calls[1].id
  /\ asked[2].tool_call_id = messages[2].tool_calls[2].id
  /\ messages[2].tool_calls[1].args # messages[2].tool_calls[2].args
  /\ asked[1].prompted
  /\ asked[1].approval = APPROVED
  /\ match_rule(AllowRuleFor(messages[2].tool_calls[1].name,
                             messages[2].tool_calls[1].args),
                messages[2].tool_calls[2].name,
                messages[2].tool_calls[2].args)
  /\ asked[1].saved
  /\ asked[2].approval = APPROVED
  /\ ~asked[2].prompted

\* C39 -- one-time answers do not change policy: after check_tool_permission
\* decided a call from the settings, or from a prompt answered with anything
\* but 'always', the settings file is the file it was, nothing was saved,
\* the permission set in memory is the one the file held, and the same call
\* gets the same verdict from the settings again, so a call that was
\* prompted for is undecided and prompted for again whatever the answer.
OneTimeAnswersKeepPolicy ==
  (/\ probe.op = "check_tool_permission"
   /\ (probe.prompted => probe.choice \notin {"a", "always"}))
    => /\ settings_file = probe.file_before
       /\ ~saved
       /\ Permissions = load_settings(probe.file_before).permissions
       /\ check_permission(get_settings(_settings, settings_file),
                           probe.call.name, probe.call.args)
            = probe.permission
       /\ \A choice \in Choices :
            check_tool_permission(_settings, settings_file, probe.call.name,
                                  probe.call.args, choice).prompted
              = probe.prompted

\* The user answered 'yes' to the prompt for a shell command while the file
\* held an allow rule for something else; the file still holds that rule
\* only and the same command is undecided again.
OneTimeAnswersKeepPolicyWitness ==
  /\ probe.op = "check_tool_permission"
  /\ probe.prompted
  /\ probe.choice = "yes"
  /\ probe.result = APPROVED
  /\ probe.call.name = RUN_SHELL_COMMAND
  /\ Len(Permissions.allow) = 1
  /\ settings_file = probe.file_before
  /\ check_permission(get_settings(_settings, settings_file),
                      probe.call.name, probe.call.args) = PermNone

====
